---- MODULE Spec2Model ----
(***************************************************************************)
(* A model of the session orchestration layer of the follow-up bot:       *)
(* the rate limiter (openai_integration.py), the conversation store       *)
(* (file_operations.py), the authorization cache, the admin commands and  *)
(* the polling loop (k2_notion_general_manager.py).                       *)
(*                                                                         *)
(* Texts (display names, message bodies, file names, file contents) are   *)
(* sequences of tokens.  Display names and str(user_id) are spelled one    *)
(* character per token; the marker pieces "[ID: " and "]:" and the words   *)
(* of a message are one token each.  Substring tests of the code are       *)
(* subsequence tests here.                                                 *)
(***************************************************************************)
EXTENDS Integers, Sequences, FiniteSets, TLC

VARIABLES
    now,                \* the wall clock, time.time(), in seconds
    user_last_request,  \* RateLimiter.user_last_request
    conversations,      \* the conversations directory, in os.listdir order
    user_cache,         \* NotionClient._user_cache
    cache_expires,      \* NotionClient._cache_expires
    pages,              \* the profile store's pages (the Notion database)
    admin_users,        \* TelegramBot.admin_users
    running,            \* TelegramBot.running
    last_update_id,     \* TelegramBot.last_update_id
    pc,                 \* position of start_polling
    batch,              \* the updates of the current batch not yet looked at
    inbox,              \* the transport's unconfirmed updates
    next_update_id,     \* the transport's next update id
    delivered,          \* the ids of the updates given to process_update_sync so far
    restarts,           \* how many times the process was started again
    obs                 \* what the last operation was given and returned

vars == <<now, user_last_request, conversations, user_cache, cache_expires,
          pages, admin_users, running, last_update_id, pc, batch, inbox,
          next_update_id, delivered, restarts, obs>>

(***************************************************************************)
(* Program constants.                                                      *)
(***************************************************************************)
\* config.py:22 sets 6904183057; the model keeps a small stand-in because
\* the model's integers are 32 bits wide.  Only equality with it is used.
ADMIN_USER_ID == 69
CACHE_TTL == 300
MIN_INTERVAL == 2
CONTEXT_WINDOW_DEFAULT == 20
MAX_FILENAME_LEN == 50

(***************************************************************************)
(* Bounds of the model.                                                    *)
(***************************************************************************)
StartTime == 1000      \* the clock at construction
MaxSmallSteps == 3     \* one-second steps the clock may take
MaxTtlSteps == 1       \* CACHE_TTL-second steps the clock may take
FirstUpdateId == 1     \* the id of the first update the transport issues
MaxUpdates == 2        \* updates the transport issues in all
MaxHandled == 2        \* updates handled in the handler's own specification
MaxPages == 3          \* pages the profile store may hold
MaxCommands == 1       \* admin commands given in the profile client's specification
MaxRestarts == 1       \* times the process may be started again
MaxLines == 2          \* lines the conversation store's own specification lets the files hold
MaxCount == 1          \* the largest message_count asked of get_recent_messages
MaxLogged == 3         \* lines the logs hold when updates handed out again stop being handled
MaxDispatched == 2     \* updates handled in the dispatcher's own specification
MaxArchived == 1       \* archive suffixes the file names may carry in all

None == <<>>           \* Python's None where a text is expected

(***************************************************************************)
(* Texts.                                                                  *)
(***************************************************************************)
Contains(s, pat) ==
    \E i \in 1..(Len(s) - Len(pat) + 1) : SubSeq(s, i, i + Len(pat) - 1) = pat

DigitChar(d) ==
    CASE d = 0 -> "0" [] d = 1 -> "1" [] d = 2 -> "2" [] d = 3 -> "3"
      [] d = 4 -> "4" [] d = 5 -> "5" [] d = 6 -> "6" [] d = 7 -> "7"
      [] d = 8 -> "8" [] OTHER -> "9"

RECURSIVE Str(_)
Str(n) == IF n < 10 THEN <<DigitChar(n)>>
          ELSE Str(n \div 10) \o <<DigitChar(n % 10)>>

Marker(user_id) == <<"[ID: ">> \o Str(user_id) \o <<"]:">>

IllegalChars == {"<", ">", ":", "\"", "/", "\\", "|", "?", "*"}

RECURSIVE LStrip(_)
LStrip(s) == IF s # <<>> /\ Head(s) = " " THEN LStrip(Tail(s)) ELSE s

RECURSIVE RStrip(_)
RStrip(s) == IF s # <<>> /\ s[Len(s)] = " "
             THEN RStrip(SubSeq(s, 1, Len(s) - 1)) ELSE s

Strip(s) == RStrip(LStrip(s))

Prefix(s, n) == SubSeq(s, 1, IF Len(s) < n THEN Len(s) ELSE n)

sanitize_filename(filename) ==
    LET subbed == [i \in 1..Len(filename) |->
                     IF filename[i] \in IllegalChars THEN "_" ELSE filename[i]]
        sanitized == Prefix(Strip(subbed), MAX_FILENAME_LEN)
    IN  IF sanitized # <<>> THEN sanitized ELSE <<"unknown_user">>

(***************************************************************************)
(* The conversation store (file_operations.py).  The directory is the     *)
(* sequence of its files in the order os.listdir returns them; that order  *)
(* is arbitrary, so a new name may take any place in it.  Every file of    *)
(* the directory ends in ".txt", which the names here leave out.           *)
(***************************************************************************)
InsertAt(seq, pos, x) ==
    SubSeq(seq, 1, pos - 1) \o <<x>> \o SubSeq(seq, pos, Len(seq))

RemoveAt(seq, i) == SubSeq(seq, 1, i - 1) \o SubSeq(seq, i + 1, Len(seq))

\* the place of the file called name in the listing, 0 when there is none
FileIndex(conv, name) ==
    IF \E i \in 1..Len(conv) : conv[i].name = name
    THEN CHOOSE i \in 1..Len(conv) : conv[i].name = name
    ELSE 0

\* the loop shared by find_username_by_user_id, get_recent_messages and
\* archive_conversation: the first listed file whose content holds the marker
FirstMatch(conv, user_id) ==
    LET hits == {i \in 1..Len(conv) : Contains(conv[i].content, Marker(user_id))}
    IN  IF hits = {} THEN 0 ELSE CHOOSE i \in hits : \A j \in hits : i <= j

find_username_by_user_id(conv, user_id) ==
    LET i == FirstMatch(conv, user_id)
    IN  IF i = 0 THEN None ELSE conv[i].name

\* the line save_conversation formats (the timestamp prefix is left out)
FormatMessage(user_id, author_name, content, author_id) ==
    LET display_id == IF author_id = "USER" THEN Str(user_id) ELSE <<author_id>>
    IN  author_name \o <<"[ID: ">> \o display_id \o <<"]:", "---">>
        \o content \o <<"\n">>

\* open(filepath, "a") and write: creates the file when it is not there
AppendToFile(conv, name, text, pos) ==
    LET i == FileIndex(conv, name)
    IN  IF i # 0
        THEN [conv EXCEPT ![i].content = @ \o text]
        ELSE InsertAt(conv, pos, [name |-> name, content |-> text])

\* the file save_conversation writes to
SaveTarget(conv, user_id, author_name, author_id) ==
    LET found == find_username_by_user_id(conv, user_id)
        filename_to_use ==
            IF author_id = "BOT_ID"
            THEN (IF found # None THEN found ELSE Str(user_id))
            ELSE author_name
    IN  sanitize_filename(filename_to_use)

\* a store that writes the bot's lines only
save_conversation_BotOnly(conv, user_id, author_name, content, author_id, io) ==
    IF author_id = "USER" THEN conv
    ELSE AppendToFile(conv, SaveTarget(conv, user_id, author_name, author_id),
                      FormatMessage(user_id, author_name, content, author_id),
                      IF io.pos <= Len(conv) + 1 THEN io.pos ELSE Len(conv) + 1)

\* io.ok: the write succeeds; io.pos: where a new file lands in the listing
save_conversation(conv, user_id, author_name, content, author_id, io) ==
    LET safe_filename == SaveTarget(conv, user_id, author_name, author_id)
        formatted_message == FormatMessage(user_id, author_name, content, author_id)
        pos == IF io.pos <= Len(conv) + 1 THEN io.pos ELSE Len(conv) + 1
    IN  IF io.ok
        THEN AppendToFile(conv, safe_filename, formatted_message, pos)
        ELSE conv

\* file.readlines(): the content cut after every "\n"
RECURSIVE ReadLines(_)
ReadLines(content) ==
    IF content = <<>> THEN <<>>
    ELSE IF \E i \in 1..Len(content) : content[i] = "\n"
         THEN LET k == CHOOSE i \in 1..Len(content) :
                          /\ content[i] = "\n"
                          /\ \A j \in 1..(i - 1) : content[j] # "\n"
              IN  <<SubSeq(content, 1, k)>>
                  \o ReadLines(SubSeq(content, k + 1, Len(content)))
         ELSE <<content>>

\* line.strip(): blanks and line ends off both ends
RECURSIVE StripLine(_)
StripLine(line) ==
    IF line # <<>> /\ line[Len(line)] \in {" ", "\n"}
    THEN StripLine(SubSeq(line, 1, Len(line) - 1))
    ELSE IF line # <<>> /\ Head(line) \in {" ", "\n"}
         THEN StripLine(Tail(line))
         ELSE line

\* "ID:" in line
HasIdText(line) == \E i \in 1..Len(line) : line[i] \in {"[ID: ", "ID:"}

SelectSeqLines(lines) ==
    SelectSeq(lines, LAMBDA l : StripLine(l) # <<>> /\ HasIdText(l))

\* seq[-n:] of Python
LastSlice(seq, n) ==
    LET start == IF n > 0 THEN (IF Len(seq) - n < 0 THEN 0 ELSE Len(seq) - n)
                 ELSE (IF -n > Len(seq) THEN Len(seq) ELSE -n)
    IN  SubSeq(seq, start + 1, Len(seq))

\* a search that goes on after a match and keeps the last one
RecentTarget_Last(conv, user_id) ==
    LET hits == {i \in 1..Len(conv) : Contains(conv[i].content, Marker(user_id))}
    IN  IF hits = {} THEN 0 ELSE CHOOSE i \in hits : \A j \in hits : i >= j

\* lines 115-134: target_file, as its place in the listing, 0 for None
RecentTarget(conv, user_id) == FirstMatch(conv, user_id)

get_recent_messages(conv, user_id, message_count) ==
    LET i == RecentTarget(conv, user_id)
    IN  IF i = 0 THEN <<>>
        ELSE LET kept == SelectSeqLines(ReadLines(conv[i].content))
                 user_messages == [k \in 1..Len(kept) |-> StripLine(kept[k])]
             IN  LastSlice(user_messages, message_count)

\* get_recent_messages when the file system fails it.  io = "listdir": the
\* listing raises, and the outer handler returns [] (lines 147-149);
\* io = "scan": the read of the first file that holds the marker raises
\* while the files are searched, which skips the file (lines 129-130);
\* io = "read": the file is found and its second read (line 137) raises
get_recent_messages_failing(conv, user_id, message_count, io) ==
    CASE io = "listdir" -> <<>>
      [] io = "read" -> <<>>
      [] io = "scan" ->
           IF RecentTarget(conv, user_id) = 0 THEN <<>>
           ELSE get_recent_messages(RemoveAt(conv, RecentTarget(conv, user_id)),
                                    user_id, message_count)
      [] OTHER -> get_recent_messages(conv, user_id, message_count)

\* the name archive_conversation renames to, at clock value t
ArchiveName(base_name, t) == base_name \o <<"_archived_">> \o Str(t)

\* the loop of archive_conversation from place i of the listing on.
\* io.replace: os.rename replaces a file already at the new name (POSIX) or
\* raises (Windows), and the loop then goes on to the next file; io.pos:
\* where the new name lands in the listing.
\* Returns the directory, what the function returns, and the two names.
RECURSIVE ArchiveFrom(_, _, _, _, _)
ArchiveFrom(conv, user_id, t, io, i) ==
    IF i > Len(conv)
    THEN [conv |-> conv, ret |-> FALSE, from |-> None, to |-> None]
    ELSE IF ~Contains(conv[i].content, Marker(user_id))
    THEN ArchiveFrom(conv, user_id, t, io, i + 1)
    ELSE IF FileIndex(conv, ArchiveName(conv[i].name, t)) # 0 /\ ~io.replace
    THEN ArchiveFrom(conv, user_id, t, io, i + 1)
    ELSE LET moved == [name |-> ArchiveName(conv[i].name, t),
                       content |-> conv[i].content]
             rest == RemoveAt(conv, i)
             j == FileIndex(rest, moved.name)
             kept == IF j = 0 THEN rest ELSE RemoveAt(rest, j)
             p == IF io.pos <= Len(kept) + 1 THEN io.pos ELSE Len(kept) + 1
         IN  [conv |-> InsertAt(kept, p, moved), ret |-> TRUE,
              from |-> conv[i].name, to |-> moved.name]

archive_conversation(conv, user_id, t, io) == ArchiveFrom(conv, user_id, t, io, 1)

(***************************************************************************)
(* The rate limiter (openai_integration.py).                               *)
(***************************************************************************)
\* dict.get(key, default)
Get(d, key, default) == IF key \in DOMAIN d THEN d[key] ELSE default

\* d[key] = value
Put(d, key, value) == [k \in DOMAIN d \cup {key} |-> IF k = key THEN value ELSE d[k]]

\* a limiter that still refuses when exactly the interval has passed
can_make_request_Strict(last, user_id, t) ==
    LET last_request == Get(last, user_id, 0)
    IN  IF t - last_request <= MIN_INTERVAL
        THEN [ret |-> <<FALSE, MIN_INTERVAL - (t - last_request)>>, last |-> last]
        ELSE [ret |-> <<TRUE, 0>>, last |-> Put(last, user_id, t)]

\* a limiter that records the time of every check, refused or not
can_make_request_RecordAlways(last, user_id, t) ==
    LET last_request == Get(last, user_id, 0)
    IN  IF t - last_request < MIN_INTERVAL
        THEN [ret |-> <<FALSE, MIN_INTERVAL - (t - last_request)>>,
              last |-> Put(last, user_id, t)]
        ELSE [ret |-> <<TRUE, 0>>, last |-> Put(last, user_id, t)]

\* a limiter that compares the distance between the two times
can_make_request_Distance(last, user_id, t) ==
    LET last_request == Get(last, user_id, 0)
        distance == IF t >= last_request THEN t - last_request ELSE last_request - t
    IN  IF distance < MIN_INTERVAL
        THEN [ret |-> <<FALSE, MIN_INTERVAL - distance>>, last |-> last]
        ELSE [ret |-> <<TRUE, 0>>, last |-> Put(last, user_id, t)]

\* returns the pair the method returns and the map it leaves
can_make_request(last, user_id, t) ==
    LET last_request == Get(last, user_id, 0)
    IN  IF t - last_request < MIN_INTERVAL
        THEN [ret |-> <<FALSE, MIN_INTERVAL - (t - last_request)>>, last |-> last]
        ELSE [ret |-> <<TRUE, 0>>, last |-> Put(last, user_id, t)]

(***************************************************************************)
(* The profile store and the authorization cache (NotionClient).           *)
(* A page is [tid, handle, name, can_chat_bot, active, admin,              *)
(* context_lines, extra]: tid 0 and context_lines 0 stand for an unset     *)
(* number, handle "" for an unset handle; extra holds the page's other     *)
(* fields as "field: value" lines.  notion_id is the page's place in       *)
(* pages.  A query returns its matches in an order the store chooses:      *)
(* pick names the page that comes first when it is among the matches.      *)
(***************************************************************************)
FirstOf(matches, pick) ==
    IF pick \in matches THEN pick
    ELSE CHOOSE i \in matches : \A j \in matches : i <= j

\* a denial that lets the user in
DeniedResult_Open == <<TRUE, <<>>, CONTEXT_WINDOW_DEFAULT, <<"Unknown">>>>

DeniedResult == <<FALSE, <<>>, CONTEXT_WINDOW_DEFAULT, <<"Unknown">>>>

\* str(checkbox)
BoolStr(b) == IF b THEN "True" ELSE "False"

\* the lines built from the fields that are not system fields; the admin
\* checkbox is not in system_fields, so it is one of them
ProfileText(page) ==
    IF page.extra = <<>> THEN <<"admin: ", BoolStr(page.admin)>>
    ELSE <<"admin: ", BoolStr(page.admin), "\n">> \o page.extra

\* lines 220-253: the tuple built from the first result
ParseAuthorization(page) ==
    <<page.can_chat_bot,
      ProfileText(page),
      IF page.context_lines # 0 THEN page.context_lines ELSE CONTEXT_WINDOW_DEFAULT,
      IF page.name # <<>> THEN page.name ELSE <<"Unknown">>>>

\* a cache whose entries still count at their expiry
CacheHit_Late(cache, expires, cache_key, t) ==
    /\ cache_key \in DOMAIN cache
    /\ cache_key \in DOMAIN expires
    /\ t <= expires[cache_key]

CacheHit(cache, expires, cache_key, t) ==
    /\ cache_key \in DOMAIN cache
    /\ cache_key \in DOMAIN expires
    /\ t < expires[cache_key]

\* q.query: "ok", "fail" (_make_request returned None) or "raise" (the
\* response came but reading its first result raised); q.pick: see above.
\* Returns the tuple, the two maps as left, and whether a query was issued.
get_user_authorization(cache, expires, store, telegram_user_id, t, q) ==
    LET cache_key == telegram_user_id
        matches == {i \in 1..Len(store) :
                      store[i].active /\ store[i].tid = telegram_user_id}
        stored(result) == [ret |-> result,
                           cache |-> Put(cache, cache_key, result),
                           expires |-> Put(expires, cache_key, t + CACHE_TTL),
                           queried |-> TRUE]
    IN  IF CacheHit(cache, expires, cache_key, t)
        THEN [ret |-> cache[cache_key], cache |-> cache, expires |-> expires,
              queried |-> FALSE]
        ELSE IF q.query = "fail" \/ matches = {}
        THEN stored(DeniedResult)
        ELSE IF q.query = "raise"
        THEN [ret |-> IF cache_key \in DOMAIN cache THEN cache[cache_key]
                      ELSE DeniedResult,
              cache |-> cache, expires |-> expires, queried |-> TRUE]
        ELSE stored(ParseAuthorization(store[FirstOf(matches, q.pick)]))

\* a roster made of the store's answer alone
get_admin_users_StoreOnly(store, q) ==
    IF q.query # "ok" THEN {ADMIN_USER_ID}
    ELSE {store[i].tid : i \in {j \in 1..Len(store) :
                                  /\ store[j].active /\ store[j].admin
                                  /\ store[j].tid # 0}}

\* the roster as a set: only membership and size are ever read
get_admin_users(store, q) ==
    IF q.query # "ok" THEN {ADMIN_USER_ID}
    ELSE {ADMIN_USER_ID} \cup
         {store[i].tid : i \in {j \in 1..Len(store) :
                                  /\ store[j].active /\ store[j].admin
                                  /\ store[j].tid # 0}}

\* handle.lstrip('@')
LStripAt(h) ==
    CASE h = "@a" -> "a" [] h = "@@a" -> "a" [] h = "@A" -> "A"
      [] h = "@b" -> "b" [] h = "@" -> "" [] OTHER -> h

\* str.lower()
Lower(h) ==
    CASE h = "A" -> "a" [] h = "@A" -> "@a" [] h = "/ADD" -> "/add" [] OTHER -> h

\* the notion_id of the page found, 0 for None.  The store's "contains"
\* filter is implied by the exact match that follows it.
find_user_by_handle(store, handle, q) ==
    LET clean_handle == LStripAt(handle)
        matches == {i \in 1..Len(store) :
                      /\ store[i].handle # ""
                      /\ Lower(LStripAt(store[i].handle)) = Lower(clean_handle)}
    IN  IF q.query # "ok" \/ matches = {} THEN 0
        ELSE FirstOf(matches, q.pick)

\* the dictionary d without key
Drop(d, key) == [k \in DOMAIN d \ {key} |-> d[k]]

\* an update that leaves the cache as it is
update_user_access_KeepCache(cache, expires, store, notion_id, fields, patch_ok) ==
    IF DOMAIN fields = {} \/ ~patch_ok
    THEN [ret |-> FALSE, cache |-> cache, expires |-> expires, store |-> store]
    ELSE [ret |-> TRUE, cache |-> cache, expires |-> expires,
          store |-> [store EXCEPT ![notion_id] =
                       [f \in DOMAIN @ |-> IF f \in DOMAIN fields THEN fields[f] ELSE @[f]]]]

\* an update that removes the entry of the page's user only
update_user_access_DropOne(cache, expires, store, notion_id, fields, patch_ok) ==
    IF DOMAIN fields = {} \/ ~patch_ok
    THEN [ret |-> FALSE, cache |-> cache, expires |-> expires, store |-> store]
    ELSE [ret |-> TRUE, cache |-> Drop(cache, store[notion_id].tid),
          expires |-> Drop(expires, store[notion_id].tid),
          store |-> [store EXCEPT ![notion_id] =
                       [f \in DOMAIN @ |-> IF f \in DOMAIN fields THEN fields[f] ELSE @[f]]]]

\* fields: the keyword arguments given; patch_ok: the PATCH succeeded
\* an update that empties the cache whether the patch succeeded or not
update_user_access_ClearAlways(cache, expires, store, notion_id, fields, patch_ok) ==
    IF DOMAIN fields = {} \/ ~patch_ok
    THEN [ret |-> FALSE, cache |-> <<>>, expires |-> <<>>, store |-> store]
    ELSE [ret |-> TRUE, cache |-> <<>>, expires |-> <<>>,
          store |-> [store EXCEPT ![notion_id] =
                       [f \in DOMAIN @ |-> IF f \in DOMAIN fields THEN fields[f] ELSE @[f]]]]

update_user_access(cache, expires, store, notion_id, fields, patch_ok) ==
    IF DOMAIN fields = {} \/ ~patch_ok
    THEN [ret |-> FALSE, cache |-> cache, expires |-> expires, store |-> store]
    ELSE [ret |-> TRUE, cache |-> <<>>, expires |-> <<>>,
          store |-> [store EXCEPT ![notion_id] =
                       [f \in DOMAIN @ |-> IF f \in DOMAIN fields THEN fields[f] ELSE @[f]]]]

\* f"@{username}"
PrependAt(u) == CASE u = "a" -> "@a" [] u = "A" -> "@A" [] u = "b" -> "@b" [] OTHER -> "@"

\* user_data: [first_name, last_name, username] as the transport gave them
create_user_from_telegram_data(cache, expires, store, user_data, telegram_user_id, post_ok) ==
    LET full_name == Strip(user_data.first_name \o <<" ">> \o user_data.last_name)
        page == [tid |-> telegram_user_id,
                 handle |-> IF user_data.username # "" THEN PrependAt(user_data.username) ELSE "",
                 name |-> full_name,
                 can_chat_bot |-> TRUE, active |-> TRUE, admin |-> FALSE,
                 context_lines |-> 0, extra |-> <<>>]
    IN  IF post_ok
        THEN [ret |-> TRUE, cache |-> <<>>, expires |-> <<>>,
              store |-> Append(store, page)]
        ELSE [ret |-> FALSE, cache |-> cache, expires |-> expires, store |-> store]

(***************************************************************************)
(* The context assembler and the backend call (openai_integration.py).     *)
(***************************************************************************)
bot_persona == <<"persona">>

RECURSIVE JoinLines(_)
JoinLines(lines) ==
    IF lines = <<>> THEN <<>>
    ELSE IF Len(lines) = 1 THEN lines[1]
    ELSE lines[1] \o <<"\n">> \o JoinLines(Tail(lines))

\* a test that takes only the empty text for blank
IsBlank_EmptyOnly(text) == text = <<>>

\* user_profile.strip(): empty when only blanks and line ends are in it
IsBlank(text) == \A i \in 1..Len(text) : text[i] \in {" ", "\n"}

build_conversation_context(system_prompt, user_profile, conversation_history, current_message) ==
    LET enhanced_system_prompt ==
            system_prompt
            \o <<"EMPLOYEE PROFILE DATA:">>
            \o (IF ~IsBlank(user_profile) THEN user_profile
                ELSE <<"No specific profile data available.">>)
            \o <<"RECENT CONVERSATION HISTORY:">>
            \o (IF conversation_history # <<>> THEN JoinLines(conversation_history)
                ELSE <<"No previous conversation.">>)
            \o <<"Instructions:">>
    IN  <<[role |-> "system", content |-> enhanced_system_prompt],
          [role |-> "user", content |-> current_message]>>

\* outcome: "ok", an error kind the function turns into a fixed text, or
\* "none" (the completion carried no content)
chat_with_openai(conversation, outcome) ==
    CASE outcome = "ok" -> <<"reply">>
      [] outcome = "rate_limit" ->
            <<"I'm experiencing high demand right now. Please try again in a moment.">>
      [] outcome = "api_error" ->
            <<"I'm having trouble connecting to my AI systems. Please try again shortly.">>
      [] outcome = "none" -> None
      [] OTHER ->
            <<"Something went wrong on my end. Please try rephrasing your message.">>

(***************************************************************************)
(* The handling of one message (TelegramBot).  A handler works on a        *)
(* record st of the state it may change,                                   *)
(*   conv, cache, expires, last, store, admins,                            *)
(* and of what it did, in order: trace (the calls made), sent (the         *)
(* messages sent), raised (an error left the handler), auth and rate (what *)
(* the two checks returned), context (what the backend was given).         *)
(* e holds what the outside world answers while the message is handled:    *)
(*   io_user, io_bot  the two log writes succeed                           *)
(*   pos              where a new file lands in the listing                *)
(*   q, pick          the first store query (or identity fetch)            *)
(*   patch_ok         the store PATCH or POST succeeds                     *)
(*   q2               the roster query                                     *)
(*   backend          the backend's outcome                                *)
(***************************************************************************)
UNAUTHORIZED_MESSAGE == <<"UNAUTHORIZED_MESSAGE">>
GROUP_REDIRECT_MESSAGE == <<"Please message me privately.">>

Ev(st, ev) == [st EXCEPT !.trace = Append(@, ev)]

send_message_sync(st, chat_id, text) ==
    [st EXCEPT !.sent = Append(@, [chat_id |-> chat_id, text |-> text]),
               !.trace = Append(@, "send")]

\* a test that takes every chat for a private one
is_group_chat_Never(chat_id) == FALSE

is_group_chat(chat_id) == chat_id < 0

\* a gate that takes every sender for an administrator
is_admin_user_Anyone(st, user_id) == TRUE

is_admin_user(st, user_id) == user_id \in st.admins

load_admin_users(st, q2) ==
    [Ev(st, "roster_query") EXCEPT !.admins = get_admin_users(st.store, [query |-> q2])]

\* text.split()
Split(text) == SelectSeq(text, LAMBDA w : w \notin {" ", "\n"})

SlashWords == {"/add", "/ADD", "/remove", "/activate", "/deactivate", "/add_id",
               "/make_admin", "/remove_admin", "/admin_help", "/refresh_admins",
               "/start", "/help", "/status", "/users", "/other"}

\* text.startswith("/")
StartsWithSlash(text) == text # <<>> /\ Head(text) \in SlashWords

\* int(parts[1]); -1 stands for ValueError
IntOf(w) == CASE w = "42" -> 42 [] w = "7" -> 7 [] w = "69" -> 69 [] OTHER -> -1

\* what the transport knows of a user (getChat)
TelegramUserInfo(user_id) ==
    CASE user_id = 42 -> [first_name |-> <<"a">>, last_name |-> <<>>, username |-> "a"]
      [] user_id = 7 -> [first_name |-> <<"b">>, last_name |-> <<"c">>, username |-> ""]
      [] OTHER -> [first_name |-> <<"s">>, last_name |-> <<>>, username |-> "b"]

\* the shape shared by the commands that patch the page found by handle:
\* add, remove, activate, deactivate, make_admin and remove_admin
AdminPatchByHandle(st, message, e, fields, reload, guard_primary, name) ==
    LET chat_id == message.chat_id
        parts == Split(message.text)
        handle == parts[2]
        notion_id == find_user_by_handle(st.store, handle, [query |-> e.q, pick |-> e.pick])
        st1 == Ev(st, "store_query")
    IN  IF notion_id = 0
        THEN send_message_sync(st1, chat_id, <<name, "not found">>)
        ELSE IF guard_primary /\ st1.store[notion_id].tid = ADMIN_USER_ID
        THEN send_message_sync(st1, chat_id, <<name, "primary admin">>)
        ELSE LET u == update_user_access(st1.cache, st1.expires, st1.store,
                                         notion_id, fields, e.patch_ok)
                 st2 == [Ev(st1, "store_patch") EXCEPT !.cache = u.cache,
                                                       !.expires = u.expires,
                                                       !.store = u.store]
                 st3 == IF u.ret /\ reload THEN load_admin_users(st2, e.q2) ELSE st2
             IN  send_message_sync(st3, chat_id,
                                   <<name, IF u.ret THEN "done" ELSE "failed">>)

admin_add_user_sync(st, message, e) ==
    AdminPatchByHandle(st, message, e, [can_chat_bot |-> TRUE, active |-> TRUE],
                       FALSE, FALSE, "/add")

admin_remove_user_sync(st, message, e) ==
    AdminPatchByHandle(st, message, e, [can_chat_bot |-> FALSE],
                       FALSE, FALSE, "/remove")

admin_activate_user_sync(st, message, e) ==
    AdminPatchByHandle(st, message, e, [active |-> TRUE],
                       FALSE, FALSE, "/activate")

\* a deactivation that reloads the roster once the store is changed
admin_deactivate_user_sync_Reload(st, message, e) ==
    AdminPatchByHandle(st, message, e, [active |-> FALSE, can_chat_bot |-> FALSE],
                       TRUE, FALSE, "/deactivate")

admin_deactivate_user_sync(st, message, e) ==
    AdminPatchByHandle(st, message, e, [active |-> FALSE, can_chat_bot |-> FALSE],
                       FALSE, FALSE, "/deactivate")

\* a promote that leaves the roster as it was loaded last
admin_make_admin_sync_NoReload(st, message, e) ==
    AdminPatchByHandle(st, message, e,
                       [admin |-> TRUE, active |-> TRUE, can_chat_bot |-> TRUE],
                       FALSE, FALSE, "/make_admin")

admin_make_admin_sync(st, message, e) ==
    AdminPatchByHandle(st, message, e,
                       [admin |-> TRUE, active |-> TRUE, can_chat_bot |-> TRUE],
                       TRUE, FALSE, "/make_admin")

\* a demote that does not look at whose record it found
admin_remove_admin_sync_Unguarded(st, message, e) ==
    AdminPatchByHandle(st, message, e, [admin |-> FALSE],
                       TRUE, FALSE, "/remove_admin")

admin_remove_admin_sync(st, message, e) ==
    AdminPatchByHandle(st, message, e, [admin |-> FALSE],
                       TRUE, TRUE, "/remove_admin")

admin_add_by_id_sync(st, message, e) ==
    LET chat_id == message.chat_id
        parts == Split(message.text)
        target_user_id == IntOf(parts[2])
    IN  IF target_user_id = -1
        THEN send_message_sync(st, chat_id, <<"/add_id", "invalid">>)
        ELSE LET st1 == Ev(st, "get_chat")
             IN  IF e.q # "ok"
                 THEN send_message_sync(st1, chat_id, <<"/add_id", "no user data">>)
                 ELSE LET c == create_user_from_telegram_data(
                                   st1.cache, st1.expires, st1.store,
                                   TelegramUserInfo(target_user_id),
                                   target_user_id, e.patch_ok)
                          st2 == [Ev(st1, "store_create") EXCEPT !.cache = c.cache,
                                                                 !.expires = c.expires,
                                                                 !.store = c.store]
                      IN  send_message_sync(st2, chat_id,
                                            <<"/add_id", IF c.ret THEN "done" ELSE "failed">>)

\* the body runs on after the message is sent, into statements that read a
\* name the method does not have (lines 1094-1110): NameError
refresh_admin_list_sync(st, chat_id, e) ==
    LET st1 == load_admin_users(st, e.q2)
        st2 == send_message_sync(st1, chat_id, <<"/refresh_admins", "done">>)
    IN  [Ev(st2, "raise") EXCEPT !.raised = TRUE]

\* returns [st, handled]
handle_admin_command_sync(st, message, e) ==
    LET parts == Split(message.text)
        command == Lower(parts[1])
        yes(s) == [st |-> s, handled |-> TRUE]
    IN  IF parts = <<>> THEN [st |-> st, handled |-> FALSE]
        ELSE IF command = "/add" /\ Len(parts) >= 2
        THEN yes(admin_add_user_sync(st, message, e))
        ELSE IF command = "/remove" /\ Len(parts) >= 2
        THEN yes(admin_remove_user_sync(st, message, e))
        ELSE IF command = "/activate" /\ Len(parts) >= 2
        THEN yes(admin_activate_user_sync(st, message, e))
        ELSE IF command = "/deactivate" /\ Len(parts) >= 2
        THEN yes(admin_deactivate_user_sync(st, message, e))
        ELSE IF command = "/add_id" /\ Len(parts) >= 2
        THEN yes(admin_add_by_id_sync(st, message, e))
        ELSE IF command = "/make_admin" /\ Len(parts) >= 2
        THEN yes(admin_make_admin_sync(st, message, e))
        ELSE IF command = "/remove_admin" /\ Len(parts) >= 2
        THEN yes(admin_remove_admin_sync(st, message, e))
        ELSE IF command = "/admin_help"
        THEN yes(send_message_sync(st, message.chat_id, <<"/admin_help">>))
        ELSE IF command = "/refresh_admins"
        THEN yes(refresh_admin_list_sync(st, message.chat_id, e))
        ELSE [st |-> st, handled |-> FALSE]

handle_command_sync(st, message, e) ==
    LET chat_id == message.chat_id
        command == Lower(Split(message.text)[1])
    IN  IF command = "/start" THEN send_message_sync(st, chat_id, <<"/start">>)
        ELSE IF command = "/help" THEN send_message_sync(st, chat_id, <<"/help">>)
        ELSE IF command = "/status"
        THEN send_message_sync(Ev(st, "status_query"), chat_id, <<"/status">>)
        ELSE IF command = "/users" /\ is_admin_user(st, message.user_id)
        THEN send_message_sync(Ev(st, "users_query"), chat_id, <<"/users">>)
        ELSE send_message_sync(st, chat_id, <<"I don't recognize that command.">>)

BOT_NAME == <<"10x GM AI">>

\* a reply step that logs what the backend said and nothing else
Respond_SuccessOnly(st4, message, e, response_text) ==
    IF response_text # None
    THEN send_message_sync(
             [Ev(st4, "save_bot") EXCEPT !.conv =
                 save_conversation(st4.conv, message.user_id, BOT_NAME, response_text,
                                   "BOT_ID", [ok |-> e.io_bot, pos |-> e.pos])],
             message.chat_id, response_text)
    ELSE send_message_sync(st4, message.chat_id,
             <<"I'm experiencing technical difficulties. Please try again.">>)

\* lines 716-735: the response, or the apology when there is none, is saved
\* as the bot's line and sent
Respond(st4, message, e, response_text) ==
    LET error_msg == <<"I'm experiencing technical difficulties. Please try again.">>
        said == IF response_text # None THEN response_text ELSE error_msg
        st5 == [Ev(st4, "save_bot") EXCEPT !.conv =
                  save_conversation(st4.conv, message.user_id, BOT_NAME, said, "BOT_ID",
                                    [ok |-> e.io_bot, pos |-> e.pos])]
    IN  send_message_sync(st5, message.chat_id, said)

APOLOGY == <<"Something went wrong on my end. Please try rephrasing your message.">>

\* lines 736-747: an error raised inside the try block is answered with the
\* apology, saved as the bot's line and sent
Apologize(st4, message, e) ==
    send_message_sync(
        [Ev(Ev(st4, "except"), "save_bot") EXCEPT !.conv =
            save_conversation(st4.conv, message.user_id, BOT_NAME, APOLOGY, "BOT_ID",
                              [ok |-> e.io_bot, pos |-> e.pos])],
        message.chat_id, APOLOGY)

\* lines 702-714: the context is assembled and given to the backend;
\* e.backend = "raise": a statement of chat_with_openai outside its own try
\* block (lines 21-23) raised
AskBackend(st2, message, e, conversation) ==
    IF e.backend = "raise"
    THEN Apologize(Ev([Ev(st2, "assemble") EXCEPT !.context = conversation],
                      "backend"),
                   message, e)
    ELSE Respond(Ev([Ev(st2, "assemble") EXCEPT !.context = conversation], "backend"),
                 message, e, chat_with_openai(conversation, e.backend))

process_ai_conversation_sync(st, message, e, profile_text, context_lines) ==
    AskBackend(Ev(Ev(st, "typing"), "recent"), message, e,
               build_conversation_context(
                   bot_persona, profile_text,
                   get_recent_messages_failing(st.conv, message.user_id,
                                               context_lines, e.io_recent),
                   message.text))

\* t: the clock while the message is handled
\* lines 668-676: the rate check, then the conversation
RateChecked(st2, message, e, a, r) ==
    LET st3 == [Ev(st2, "rate_check") EXCEPT !.last = r.last, !.rate = r.ret]
    IN  IF ~r.ret[1]
        THEN send_message_sync(st3, message.chat_id, <<"Please wait">> \o Str(r.ret[2]))
        ELSE process_ai_conversation_sync(st3, message, e, a.ret[2], a.ret[3])

\* lines 660-666: the authorization check
Authorized(st1, message, e, t, a) ==
    LET st2 == [st1 EXCEPT !.cache = a.cache, !.expires = a.expires, !.auth = a.ret,
                           !.trace = @ \o (IF a.queried
                                           THEN <<"authorize", "store_query">>
                                           ELSE <<"authorize">>)]
    IN  IF ~a.ret[1]
        THEN send_message_sync(st2, message.chat_id, UNAUTHORIZED_MESSAGE)
        ELSE RateChecked(st2, message, e, a,
                         can_make_request(st2.last, message.user_id, t))

\* lines 644-651: an admin command that was processed ends the handling
AdminFirst(st1, message, e, adm) ==
    IF adm.handled THEN adm.st ELSE handle_command_sync(st1, message, e)

\* a handler that looks at the kind of chat before it looks for a command
AfterLogging_GroupFirst(st1, message, e, t) ==
    IF is_group_chat(message.chat_id)
    THEN send_message_sync(st1, message.chat_id, GROUP_REDIRECT_MESSAGE)
    ELSE IF StartsWithSlash(message.text) /\ is_admin_user(st1, message.user_id)
    THEN AdminFirst(st1, message, e, handle_admin_command_sync(st1, message, e))
    ELSE IF StartsWithSlash(message.text)
    THEN handle_command_sync(st1, message, e)
    ELSE Authorized(st1, message, e, t,
                    get_user_authorization(st1.cache, st1.expires, st1.store,
                                           message.user_id, t,
                                           [query |-> e.q, pick |-> e.pick]))

\* lines 643-676: what follows the logging of the message
AfterLogging(st1, message, e, t) ==
    IF StartsWithSlash(message.text) /\ is_admin_user(st1, message.user_id)
    THEN AdminFirst(st1, message, e, handle_admin_command_sync(st1, message, e))
    ELSE IF StartsWithSlash(message.text)
    THEN handle_command_sync(st1, message, e)
    ELSE IF is_group_chat(message.chat_id)
    THEN send_message_sync(st1, message.chat_id, GROUP_REDIRECT_MESSAGE)
    ELSE Authorized(st1, message, e, t,
                    get_user_authorization(st1.cache, st1.expires, st1.store,
                                           message.user_id, t,
                                           [query |-> e.q, pick |-> e.pick]))

\* lines 627-640: a message without sender, chat or text is dropped; the
\* others are logged first.  save_conversation calls ensure_conversations_dir
\* outside its try block (file_operations.py line 66): while no file has
\* been written the directory may have to be made, and e.mkdir_ok = FALSE
\* is os.makedirs raising, which leaves the handler
handle_message_sync(st, message, e, t) ==
    IF message.user_id = 0 \/ message.chat_id = 0 \/ message.text = <<>> THEN st
    ELSE IF ~e.mkdir_ok /\ st.conv = <<>>
    THEN [Ev(st, "raise") EXCEPT !.raised = TRUE]
    ELSE AfterLogging([Ev(st, "save_user") EXCEPT !.conv =
                         save_conversation(st.conv, message.user_id, message.first_name,
                                           message.text, "USER",
                                           [ok |-> e.io_user, pos |-> e.pos])],
                      message, e, t)

\* the error a handler raises stops at the update; the flag is kept in st
\* for the record only
process_update_sync(st, update, e, t) ==
    IF update.has_message
    THEN handle_message_sync(Ev(st, "handle"), update.message, e, t)
    ELSE st

(***************************************************************************)
(* The polling loop (TelegramBot.start_polling, _get_updates) and the      *)
(* transport.  The transport keeps the updates it has not been told to     *)
(* forget; a getUpdates call with an offset makes it forget every update   *)
(* below the offset, and returns the ones it still keeps.                  *)
(***************************************************************************)
\* the offset _get_updates sends, 0 when it sends none
RequestOffset(last) == IF last # 0 THEN last + 1 ELSE 0

\* what the transport keeps after a request with that offset
TransportKeeps(box, offset) == SelectSeq(box, LAMBDA u : u.update_id >= offset)

\* a loop that gives up its batch when the handling of an update raised
RestOfBatchGivenUp(updates, raised) == IF raised THEN <<>> ELSE Tail(updates)

\* the updates left in the batch once its first one was processed
RestOfBatch(updates, raised) == Tail(updates)

\* the updates the transport has been told to forget
Confirmed ==
    {i \in FirstUpdateId..(next_update_id - 1) :
        \A k \in 1..Len(inbox) : inbox[k].update_id # i}

GroupChat == 0 - 100

Msg(user_id, chat_id, text, first_name) ==
    [user_id |-> user_id, chat_id |-> chat_id, text |-> text, first_name |-> first_name]

\* the messages the model lets arrive at the handler
Messages ==
    {Msg(42, 42, <<"hello">>, <<"a">>), Msg(42, 42, <<"hello">>, <<"b">>),
     Msg(42, GroupChat, <<"hello">>, <<"a">>),
     Msg(ADMIN_USER_ID, ADMIN_USER_ID, <<"hello">>, <<"b">>),
     Msg(42, 42, <<>>, <<"a">>),
     Msg(42, 42, <<"/start">>, <<"a">>),
     Msg(42, 42, <<"/add", "@a">>, <<"a">>),
     Msg(ADMIN_USER_ID, GroupChat, <<"/remove", "@a">>, <<"b">>)}

\* the messages the model lets arrive at the transport
PollMessages ==
    {Msg(42, 42, <<"hello">>, <<"a">>),
     Msg(ADMIN_USER_ID, 42, <<"/refresh_admins">>, <<"b">>)}

NoMessage == Msg(0, 0, <<>>, <<>>)

Update(id, m) == [update_id |-> id, has_message |-> TRUE, message |-> m]

Backends == {"ok", "none", "api_error"}

BaseEnv == [io_user |-> TRUE, io_bot |-> TRUE, pos |-> 1, q |-> "ok", pick |-> 1,
            patch_ok |-> TRUE, q2 |-> "ok", backend |-> "ok",
            mkdir_ok |-> TRUE, io_recent |-> "ok"]

Fresh == [conv |-> conversations, cache |-> user_cache, expires |-> cache_expires,
          last |-> user_last_request, store |-> pages, admins |-> admin_users,
          trace |-> <<>>, sent |-> <<>>, raised |-> FALSE,
          auth |-> <<>>, rate |-> <<>>, context |-> <<>>]

\* the events of handling u at clock value t when the world answers e
TraceOf(u, e, t) == process_update_sync(Fresh, u, e, t).trace

Has(trace, events) == \E i \in 1..Len(trace) : trace[i] \in events

\* two pages that one query may both match
Ambiguous ==
    \E i, j \in 1..Len(pages) :
        /\ i < j
        /\ \/ pages[i].tid # 0 /\ pages[i].tid = pages[j].tid
           \/ /\ pages[i].handle # ""
              /\ Lower(LStripAt(pages[i].handle)) = Lower(LStripAt(pages[j].handle))

\* what the outside world may answer while update u is handled: every
\* answer is the good one, or one of the answers the handling asks for is a
\* failure; a new file may land anywhere in the listing, and any of several
\* matching pages may come first
EnvsGiven(u, t0) ==
    LET faults ==
            {BaseEnv}
            \cup (IF Has(t0, {"save_user"})
                  THEN {[BaseEnv EXCEPT !.io_user = FALSE]} ELSE {})
            \cup (IF Has(t0, {"store_query"})
                  THEN {[BaseEnv EXCEPT !.q = q] : q \in {"fail", "raise"}} ELSE {})
            \cup (IF Has(t0, {"get_chat"})
                  THEN {[BaseEnv EXCEPT !.q = "fail"]} ELSE {})
            \cup (IF Has(t0, {"store_patch", "store_create"})
                  THEN {[BaseEnv EXCEPT !.patch_ok = FALSE]} ELSE {})
            \cup (IF Has(t0, {"backend"})
                  THEN {[BaseEnv EXCEPT !.backend = b] : b \in Backends} ELSE {})
            \cup (IF Has(t0, {"save_bot"})
                  THEN {[BaseEnv EXCEPT !.io_bot = FALSE]} ELSE {})
            \cup (IF Has(t0, {"roster_query"})
                  THEN {[BaseEnv EXCEPT !.q2 = "fail"]} ELSE {})
        picks == IF Has(t0, {"store_query"}) /\ Ambiguous THEN 1..Len(pages) ELSE {1}
    IN  UNION {
          {[v EXCEPT !.pos = p, !.pick = k] :
             p \in (IF Len(process_update_sync(Fresh, u, v, now).conv)
                         > Len(conversations)
                    THEN 1..(Len(conversations) + 1) ELSE {1}),
             k \in picks} : v \in faults}

Envs(u) == EnvsGiven(u, TraceOf(u, BaseEnv, now))

\* the answers the polling model lets the outside world give
PollEnvs(u) ==
    IF ~u.has_message THEN {BaseEnv}
    ELSE {[BaseEnv EXCEPT !.q = q, !.q2 = q, !.backend = b] :
            q \in {"ok", "fail"}, b \in {"ok", "none"}}

\* the variables a handler may change, set from the record it returns
Commit(st) ==
    /\ conversations' = st.conv
    /\ user_cache' = st.cache
    /\ cache_expires' = st.expires
    /\ user_last_request' = st.last
    /\ pages' = st.store
    /\ admin_users' = st.admins

\* the state st the handling of update left, and the record kept of it
Handled(update, e, st) ==
    /\ Commit(st)
    /\ delivered' = delivered \cup {update.update_id}
    /\ obs' = [op |-> "update", update |-> update, e |-> e, t |-> now,
               trace |-> st.trace, sent |-> st.sent, raised |-> st.raised,
               auth |-> st.auth, rate |-> st.rate, context |-> st.context]

\* _process_update_sync(update) at clock value now, the world answering e
Processed(update, e) == Handled(update, e, process_update_sync(Fresh, update, e, now))

InitialPages ==
    {<<[tid |-> ADMIN_USER_ID, handle |-> "@b", name |-> <<"s">>,
        can_chat_bot |-> TRUE, active |-> TRUE, admin |-> TRUE,
        context_lines |-> 0, extra |-> <<>>],
       [tid |-> 42, handle |-> "@a", name |-> <<"a">>,
        can_chat_bot |-> c, active |-> TRUE, admin |-> FALSE,
        context_lines |-> 3, extra |-> <<>>]>> : c \in BOOLEAN}

Init ==
    /\ now = StartTime
    /\ user_last_request = <<>>
    /\ conversations = <<>>
    /\ user_cache = <<>>
    /\ cache_expires = <<>>
    /\ pages \in InitialPages
    /\ \E q \in {"ok", "fail"} : admin_users = get_admin_users(pages, [query |-> q])
    /\ running = FALSE
    /\ last_update_id = 0
    /\ pc = "start"
    /\ batch = <<>>
    /\ inbox = <<>>
    /\ next_update_id = FirstUpdateId
    /\ delivered = {}
    /\ restarts = 0
    /\ obs = [op |-> "init"]

ClockValues ==
    {StartTime + a + CACHE_TTL * b : a \in 0..MaxSmallSteps, b \in 0..MaxTtlSteps}

\* d seconds pass
Tick(d) ==
    /\ now + d \in ClockValues
    /\ now' = now + d
    /\ UNCHANGED <<user_last_request, conversations, user_cache, cache_expires,
                   pages, admin_users, running, last_update_id, pc, batch, inbox,
                   next_update_id, delivered, restarts, obs>>

\* a user sends a message, or the transport has an update without one
Arrive ==
    /\ next_update_id < FirstUpdateId + MaxUpdates
    /\ \E u \in {Update(next_update_id, m) : m \in PollMessages}
             \cup {[update_id |-> next_update_id, has_message |-> FALSE,
                    message |-> NoMessage]} :
          inbox' = Append(inbox, u)
    /\ next_update_id' = next_update_id + 1
    /\ UNCHANGED <<now, user_last_request, conversations, user_cache, cache_expires,
                   pages, admin_users, running, last_update_id, pc, batch,
                   delivered, restarts, obs>>

StartPolling ==
    /\ pc = "start"
    /\ running' = TRUE
    /\ pc' = "while"
    /\ UNCHANGED <<now, user_last_request, conversations, user_cache, cache_expires,
                   pages, admin_users, last_update_id, batch, inbox,
                   next_update_id, delivered, restarts, obs>>

\* stop(): may come at any moment once polling has begun
Stop ==
    /\ pc \in {"while", "got", "for"}
    /\ running
    /\ running' = FALSE
    /\ UNCHANGED <<now, user_last_request, conversations, user_cache, cache_expires,
                   pages, admin_users, last_update_id, pc, batch, inbox,
                   next_update_id, delivered, restarts, obs>>

\* while self.running: updates = self._get_updates()
GetUpdates ==
    /\ pc = "while"
    /\ running
    /\ \E ok \in BOOLEAN :
         LET offset == RequestOffset(last_update_id)
             kept == TransportKeeps(inbox, offset)
         IN  IF ok
             THEN /\ inbox' = kept
                  /\ batch' = kept
                  /\ last_update_id' = IF kept # <<>> THEN kept[Len(kept)].update_id
                                       ELSE last_update_id
                  /\ obs' = [op |-> "get_updates", ok |-> TRUE, offset |-> offset,
                             updates |-> kept]
             ELSE /\ batch' = <<>>
                  /\ obs' = [op |-> "get_updates", ok |-> FALSE, offset |-> offset,
                             updates |-> <<>>]
                  /\ UNCHANGED <<inbox, last_update_id>>
    /\ pc' = "got"
    /\ UNCHANGED <<now, user_last_request, conversations, user_cache, cache_expires,
                   pages, admin_users, running, next_update_id, delivered, restarts>>

\* if not self.running: break
AfterGet ==
    /\ pc = "got"
    /\ pc' = IF running THEN "for" ELSE "stopped"
    /\ batch' = IF running THEN batch ELSE <<>>
    /\ UNCHANGED <<now, user_last_request, conversations, user_cache, cache_expires,
                   pages, admin_users, running, last_update_id, inbox,
                   next_update_id, delivered, restarts, obs>>

\* a for loop that does not look at the running flag
ProcessUpdate_Unchecked ==
    /\ pc = "for"
    /\ batch # <<>>
    /\ \E e \in PollEnvs(Head(batch)) :
         /\ Processed(Head(batch), e)
         /\ batch' = RestOfBatch(batch, obs'.raised)
    /\ UNCHANGED <<now, running, last_update_id, pc, inbox, next_update_id, restarts>>

\* for update in updates: if not self.running: break;
\* self._process_update_sync(update)
ProcessUpdate ==
    /\ pc = "for"
    /\ batch # <<>>
    /\ running
    /\ \E e \in PollEnvs(Head(batch)) :
         /\ Processed(Head(batch), e)
         /\ batch' = RestOfBatch(batch, obs'.raised)
    /\ UNCHANGED <<now, running, last_update_id, pc, inbox, next_update_id, restarts>>

\* a for loop that may be left while it still holds updates
EndBatch_Early ==
    /\ pc = "for"
    /\ pc' = "while"
    /\ batch' = <<>>
    /\ obs' = [op |-> "end_batch", skipped |-> batch,
               fetch_failed |-> obs.op = "get_updates" /\ ~obs.ok]
    /\ UNCHANGED <<now, user_last_request, conversations, user_cache, cache_expires,
                   pages, admin_users, running, last_update_id, inbox,
                   next_update_id, delivered, restarts>>

\* the for loop ends, by exhaustion or by the break
EndBatch ==
    /\ pc = "for"
    /\ batch = <<>> \/ ~running
    /\ pc' = "while"
    /\ batch' = <<>>
    /\ obs' = [op |-> "end_batch", skipped |-> batch,
               fetch_failed |-> obs.op = "get_updates" /\ ~obs.ok]
    /\ UNCHANGED <<now, user_last_request, conversations, user_cache, cache_expires,
                   pages, admin_users, running, last_update_id, inbox,
                   next_update_id, delivered, restarts>>

\* while self.running is false: start_polling returns
ExitLoop ==
    /\ pc = "while"
    /\ ~running
    /\ pc' = "stopped"
    /\ UNCHANGED <<now, user_last_request, conversations, user_cache, cache_expires,
                   pages, admin_users, running, last_update_id, batch, inbox,
                   next_update_id, delivered, restarts, obs>>

\* the process is started again: what it held in memory is built anew
\* (TelegramBot.__init__, NotionClient.__init__, RateLimiter.__init__); the
\* files, the store and the transport keep what they had
Restart ==
    /\ pc = "stopped"
    /\ restarts < MaxRestarts
    /\ restarts' = restarts + 1
    /\ user_last_request' = <<>>
    /\ user_cache' = <<>>
    /\ cache_expires' = <<>>
    /\ \E q \in {"ok", "fail"} : admin_users' = get_admin_users(pages, [query |-> q])
    /\ running' = FALSE
    /\ last_update_id' = 0
    /\ pc' = "start"
    /\ batch' = <<>>
    /\ obs' = [op |-> "init"]
    /\ UNCHANGED <<now, conversations, pages, inbox, next_update_id, delivered>>

Next ==
    \/ Arrive
    \/ StartPolling
    \/ Stop
    \/ GetUpdates
    \/ AfterGet
    \/ ProcessUpdate
    \/ EndBatch
    \/ ExitLoop
    \/ Restart

\* the polling loop, the transport and restarts
Spec == Init /\ [][Next]_vars

(***************************************************************************)
(* The handler alone: any message of Messages may be handled next, at any  *)
(* clock value.                                                            *)
(***************************************************************************)
HandleUpdate ==
    /\ next_update_id < FirstUpdateId + MaxHandled
    /\ \E m \in Messages :
         \E e \in Envs(Update(next_update_id, m)) :
            Processed(Update(next_update_id, m), e)
    /\ next_update_id' = next_update_id + 1
    /\ UNCHANGED <<now, running, last_update_id, pc, batch, inbox, restarts>>

NextHandler ==
    \/ HandleUpdate
    \/ Tick(MIN_INTERVAL)

SpecHandler == Init /\ [][NextHandler]_vars

(***************************************************************************)
(* Claims about the polling loop, checked under Spec.                      *)
(***************************************************************************)
Issued == FirstUpdateId..(next_update_id - 1)

\* C1: at-least-once delivery.  Every update the transport has been told to
\* forget was given to the handler before, and every getUpdates request
\* carries an offset no greater than the id of any update not yet handled:
\* also after a stop or a raising handler cut a batch short, and after a
\* restart.
C1_AtLeastOnce ==
    /\ Confirmed \subseteq delivered
    /\ obs.op = "get_updates" =>
          \A i \in Issued : i < obs.offset => i \in delivered

\* a stop cut a batch short: the last id seen is that of an update that
\* was not handled
C1_Witness ==
    /\ obs.op = "end_batch"
    /\ obs.skipped # <<>>
    /\ \E k \in 1..Len(obs.skipped) :
          /\ obs.skipped[k].update_id \notin delivered
          /\ obs.skipped[k].update_id <= last_update_id


(***************************************************************************)
(* Claims about the handler, checked under SpecHandler.                    *)
(***************************************************************************)
\* how many times pat occurs in the files of conv
Occurrences(conv, pat) ==
    Cardinality({p \in UNION {{f} \X (1..Len(conv[f].content)) : f \in 1..Len(conv)} :
                    /\ p[2] + Len(pat) - 1 <= Len(conv[p[1]].content)
                    /\ SubSeq(conv[p[1]].content, p[2], p[2] + Len(pat) - 1) = pat})

IndexOf(trace, ev) ==
    IF Has(trace, {ev})
    THEN CHOOSE i \in 1..Len(trace) :
            trace[i] = ev /\ \A j \in 1..(i - 1) : trace[j] # ev
    ELSE 0

\* the step handled an update that carries a message
HandledMessage ==
    /\ next_update_id' = next_update_id + 1
    /\ obs'.op = "update"
    /\ obs'.update.has_message

\* the handler's guard: sender, chat and text are all there
Loggable(m) == m.user_id # 0 /\ m.chat_id # 0 /\ m.text # <<>>

\* the handling logged the sender's line first, and once
LoggedFirst(o) ==
    /\ Len(o.trace) >= 2
    /\ o.trace[1] = "handle"
    /\ o.trace[2] = "save_user"
    /\ \A k \in 3..Len(o.trace) : o.trace[k] # "save_user"

C3_BackendGate ==
    obs.op = "update" =>
      LET m == obs.update.message
          tr == obs.trace
      IN  /\ Has(tr, {"backend"}) =>
                /\ ~StartsWithSlash(m.text)
                /\ m.chat_id > 0
                /\ obs.auth # <<>> /\ obs.auth[1]
                /\ obs.rate # <<>> /\ obs.rate[1]
                /\ 0 < IndexOf(tr, "authorize")
                /\ IndexOf(tr, "authorize") < IndexOf(tr, "rate_check")
                /\ IndexOf(tr, "rate_check") < IndexOf(tr, "backend")
          /\ (StartsWithSlash(m.text) \/ m.chat_id < 0) =>
                ~Has(tr, {"authorize", "rate_check", "backend"})
          /\ (obs.auth # <<>> /\ ~obs.auth[1]) => ~Has(tr, {"rate_check", "backend"})
          /\ (obs.rate # <<>> /\ ~obs.rate[1]) => ~Has(tr, {"backend"})

\* the backend was called for an authorized sender the limiter let pass
C3_Witness ==
    /\ obs.op = "update"
    /\ Has(obs.trace, {"backend"})
    /\ obs.auth[1]
    /\ obs.rate[1]


\* text ends with tail
EndsWith(text, tail) ==
    /\ Len(tail) <= Len(text)
    /\ SubSeq(text, Len(text) - Len(tail) + 1, Len(text)) = tail

\* C4 as the specification words it: no split logs.  When both writes
\* succeed, the reply to user U is the last line of the file that holds U's
\* most recent message, and that file is the one the lookup by U's id finds.
C4_NoSplitLogs ==
    (obs.op = "update" /\ Has(obs.trace, {"save_bot"})
       /\ obs.e.io_user /\ obs.e.io_bot) =>
      LET m == obs.update.message
          f == FileIndex(conversations, sanitize_filename(m.first_name))
          reply == FormatMessage(m.user_id, BOT_NAME, obs.sent[Len(obs.sent)].text,
                                 "BOT_ID")
      IN  /\ f # 0
          /\ EndsWith(conversations[f].content, reply)
          /\ find_username_by_user_id(conversations, m.user_id) = conversations[f].name

(***************************************************************************)
(* The profile client and the admin dispatcher alone: authorize calls      *)
(* (NotionClient.get_user_authorization), admin commands given to          *)
(* _handle_admin_command_sync as _handle_message_sync gives them, and the  *)
(* clock.                                                                  *)
(***************************************************************************)
AuthUsers == {42, 7}

\* the commands a member of the roster may send
AdminMessages ==
    {Msg(ADMIN_USER_ID, ADMIN_USER_ID, text, <<"s">>) :
       text \in {<<"/add", "@a">>, <<"/remove", "@a">>, <<"/activate", "@a">>,
                 <<"/deactivate", "@a">>, <<"/add_id", "42">>, <<"/add_id", "7">>,
                 <<"/make_admin", "@a">>, <<"/remove_admin", "@a">>}}

\* the answers the outside world may give to an admin command: all good, or
\* one of those the command asks for is a failure
AdminEnvsGiven(t0) ==
    LET faults ==
            {BaseEnv}
            \cup (IF Has(t0, {"store_query", "get_chat"})
                  THEN {[BaseEnv EXCEPT !.q = "fail"]} ELSE {})
            \cup (IF Has(t0, {"store_patch", "store_create"})
                  THEN {[BaseEnv EXCEPT !.patch_ok = FALSE]} ELSE {})
            \cup (IF Has(t0, {"roster_query"})
                  THEN {[BaseEnv EXCEPT !.q2 = "fail"]} ELSE {})
    IN  {[v EXCEPT !.pick = k] :
           v \in faults,
           k \in (IF Has(t0, {"store_query"}) /\ Ambiguous
                  THEN 1..Len(pages) ELSE {1})}

AdminEnvs(message) ==
    AdminEnvsGiven(handle_admin_command_sync(Fresh, message, BaseEnv).st.trace)

\* the users with an unexpired cache entry, each with the flag cached
FreshFlags ==
    [u \in {v \in DOMAIN user_cache : CacheHit(user_cache, cache_expires, v, now)}
       |-> user_cache[u][1]]

\* the page an admin command changed in the store, 0 when it changed none
MutatedPage(message, e, st) ==
    IF ~e.patch_ok THEN 0
    ELSE IF Has(st.trace, {"store_create"}) THEN Len(st.store)
    ELSE IF Has(st.trace, {"store_patch"})
    THEN find_user_by_handle(pages, Split(message.text)[2],
                             [query |-> e.q, pick |-> e.pick])
    ELSE 0

\* what the command left, r, and the record kept of it
AdminHandled(message, e, r, target) ==
    /\ r.handled
    /\ Len(r.st.store) <= MaxPages
    /\ Commit(r.st)
    /\ obs' = [op |-> "admin", message |-> message, e |-> e, t |-> now,
               trace |-> r.st.trace,
               target |-> target,
               tid |-> IF target = 0 THEN 0 ELSE r.st.store[target].tid,
               fresh_before |-> FreshFlags]

AdminDispatched(message, e, r) ==
    AdminHandled(message, e, r, MutatedPage(message, e, r.st))

\* lines 644-646: the text begins with "/" and the sender is on the roster,
\* so the message goes to _handle_admin_command_sync
AdminCommand ==
    \E message \in AdminMessages :
      /\ next_update_id < FirstUpdateId + MaxCommands
      /\ next_update_id' = next_update_id + 1
      /\ StartsWithSlash(message.text)
      /\ is_admin_user(Fresh, message.user_id)
      /\ \E e \in AdminEnvs(message) :
           AdminDispatched(message, e, handle_admin_command_sync(Fresh, message, e))
      /\ UNCHANGED <<now, running, last_update_id, pc, batch, inbox,
                     delivered, restarts>>

\* notion.get_user_authorization(user_id) at clock value now
AuthorizeCall ==
    \E u \in AuthUsers :
      \E query \in (IF CacheHit(user_cache, cache_expires, u, now)
                    THEN {"ok"} ELSE {"ok", "fail", "raise"}) :
        \E k \in (IF Ambiguous THEN 1..Len(pages) ELSE {1}) :
          LET q == [query |-> query, pick |-> k]
              a == get_user_authorization(user_cache, cache_expires, pages, u, now, q)
          IN  /\ user_cache' = a.cache
              /\ cache_expires' = a.expires
              /\ obs' = [op |-> "authorize", user |-> u, q |-> q, t |-> now,
                         ret |-> a.ret, queried |-> a.queried,
                         had_entry |-> u \in DOMAIN user_cache,
                         after_mutation |-> obs.op = "admin" /\ obs.tid = u,
                         stale |-> IF obs.op = "admin" /\ obs.tid = u
                                      /\ u \in DOMAIN obs.fresh_before
                                   THEN <<obs.fresh_before[u]>> ELSE <<>>]
              /\ UNCHANGED <<now, user_last_request, conversations, pages,
                             admin_users, running, last_update_id, pc, batch,
                             inbox, next_update_id, delivered, restarts>>

NextAuth ==
    \/ AuthorizeCall
    \/ AdminCommand
    \/ Tick(CACHE_TTL)

SpecAuth == Init /\ [][NextAuth]_vars


(***************************************************************************)
(* Claims about the profile client, checked under SpecAuth.                *)
(***************************************************************************)
\* the step is an authorize call
AuthStep ==
    /\ obs'.op = "authorize"
    /\ now' = now
    /\ next_update_id' = next_update_id

\* the active pages of user u
ActivePagesOf(u) == {i \in 1..Len(pages) : pages[i].active /\ pages[i].tid = u}

\* the step is the authorize call for the user whose page the admin command
\* just before it changed
AuthorizeAfterMutation ==
    /\ obs.op = "admin"
    /\ obs.target # 0
    /\ AuthStep
    /\ obs'.user = obs.tid

\* the access the changed page gives its user
Established == pages[obs.target].active /\ pages[obs.target].can_chat_bot

\* C5 as the specification words it: the authorize call that follows a
\* successful mutation returns the state the mutation established.
C5_Original ==
    [][AuthorizeAfterMutation => obs'.ret[1] = Established]_vars

\* C5: after a successful admin mutation (grant, revoke, activate,
\* deactivate, create by ID, promote, demote) the next authorize call for the
\* user of the changed page never answers from the entry cached before the
\* mutation: it asks the store.  When the query succeeds and the changed page
\* is the only active page the user can have, the call returns what the
\* mutation established; when the query fails, it returns a denial.
C5_NoStaleRead ==
    [][AuthorizeAfterMutation =>
         LET p == pages[obs.target]
             alone == ActivePagesOf(obs.tid) \subseteq {obs.target}
         IN  /\ obs'.queried
             /\ (obs'.q.query = "ok" /\ alone) =>
                   /\ obs'.ret[1] = Established
                   /\ p.active => obs'.ret[2] = ProfileText(p)
             /\ obs'.q.query # "ok" => ~obs'.ret[1]]_vars

\* the call right after the mutation returned another flag than the entry
\* that was cached, and not expired, when the mutation was made
C5_Witness ==
    /\ obs.op = "authorize"
    /\ obs.after_mutation
    /\ obs.q.query = "ok"
    /\ obs.stale # <<>>
    /\ obs.stale[1] # obs.ret[1]

\* C6: fail closed.  When the query fails (no usable response, or reading
\* the response raises) and the cache holds no entry for the user, authorize
\* returns authorized = false, an empty profile text and the default window.
C6_FailClosed ==
    (obs.op = "authorize" /\ obs.queried /\ obs.q.query # "ok" /\ ~obs.had_entry) =>
        /\ obs.ret[1] = FALSE
        /\ obs.ret[2] = <<>>
        /\ obs.ret[3] = CONTEXT_WINDOW_DEFAULT

\* a failed query for a user who has a page that would let the user in
C6_Witness ==
    /\ obs.op = "authorize"
    /\ obs.queried
    /\ obs.q.query # "ok"
    /\ ~obs.had_entry
    /\ ~obs.ret[1]
    /\ \E i \in ActivePagesOf(obs.user) : pages[i].can_chat_bot

\* C7 as the specification words it: when the query fails for a user with a
\* cached record, expired or not, authorize returns that record and leaves
\* it in the cache.
C7_Original ==
    [][(AuthStep /\ obs'.queried /\ obs'.q.query # "ok"
          /\ obs'.user \in DOMAIN user_cache) =>
         /\ obs'.ret = user_cache[obs'.user]
         /\ obs'.user \in DOMAIN user_cache'
         /\ user_cache'[obs'.user] = user_cache[obs'.user]]_vars

\* the entry of user u is there and not expired
Unexpired(u) ==
    /\ u \in DOMAIN user_cache
    /\ u \in DOMAIN cache_expires
    /\ now < cache_expires[u]

\* the call stored what it returned, to expire CACHE_TTL from now, and left
\* the other entries alone
StoredResult ==
    /\ DOMAIN user_cache' = DOMAIN user_cache \cup {obs'.user}
    /\ DOMAIN cache_expires' = DOMAIN cache_expires \cup {obs'.user}
    /\ user_cache'[obs'.user] = obs'.ret
    /\ cache_expires'[obs'.user] = now + CACHE_TTL
    /\ \A v \in DOMAIN user_cache \ {obs'.user} : user_cache'[v] = user_cache[v]
    /\ \A v \in DOMAIN cache_expires \ {obs'.user} :
          cache_expires'[v] = cache_expires[v]

\* C8 as the specification words it: a hit returns the cached record without
\* a query; a miss queries the store and stores the result with expiry
\* now + TTL.
C8_Original ==
    [][AuthStep =>
         IF Unexpired(obs'.user)
         THEN /\ obs'.ret = user_cache[obs'.user]
              /\ ~obs'.queried
         ELSE /\ obs'.queried
              /\ StoredResult]_vars

\* C8: if an entry for the user exists and now < its expiry, authorize
\* returns exactly the cached record, issues no query and leaves the cache as
\* it is; if now >= expiry or no entry exists, it queries the store and
\* stores what it returns with expiry now + 300, unless reading the
\* response raises, in which case the cache is left as it is.
C8_CacheHitMiss ==
    [][AuthStep =>
         IF Unexpired(obs'.user)
         THEN /\ obs'.ret = user_cache[obs'.user]
              /\ ~obs'.queried
              /\ user_cache' = user_cache
              /\ cache_expires' = cache_expires
         ELSE /\ obs'.queried
              /\ IF obs'.q.query = "raise" /\ ActivePagesOf(obs'.user) # {}
                 THEN user_cache' = user_cache /\ cache_expires' = cache_expires
                 ELSE StoredResult]_vars

\* an entry that is at its expiry is asked for again and stored anew
C8_Witness ==
    /\ obs.op = "authorize"
    /\ obs.had_entry
    /\ obs.queried
    /\ obs.q.query = "ok"
    /\ obs.t > StartTime
    /\ user_cache[obs.user] = obs.ret
    /\ cache_expires[obs.user] = obs.t + CACHE_TTL

\* C9: when an admin command has changed a page of the profile store, the
\* cache is completely empty as the command returns: every key is gone, not
\* only that of the user of the page.
C9_CacheCleared ==
    (obs.op = "admin" /\ obs.target # 0) =>
        /\ user_cache = <<>>
        /\ cache_expires = <<>>

\* the command returned with the cache empty, and before it the cache held
\* an unexpired entry of a user other than the one of the page
C9_Witness ==
    /\ obs.op = "admin"
    /\ obs.target # 0
    /\ \E u \in DOMAIN obs.fresh_before : u # obs.tid
    /\ obs.tid \in DOMAIN obs.fresh_before
    /\ user_cache = <<>>


(***************************************************************************)
(* The rate limiter alone: checks of any user at any clock value.          *)
(***************************************************************************)
\* rate_limiter.can_make_request(u) at clock value now.  The record kept of
\* it notes, from what the checks returned, when each user was last checked
\* and last let pass.
CheckRate ==
    \E u \in AuthUsers :
      LET r == can_make_request(user_last_request, u, now)
          seen == IF obs.op = "check" THEN obs
                  ELSE [checked |-> <<>>, permitted |-> <<>>]
      IN  /\ user_last_request' = r.last
          /\ obs' = [op |-> "check", user |-> u, t |-> now, ret |-> r.ret,
                     checked |-> Put(seen.checked, u, now),
                     permitted |-> IF r.ret[1] THEN Put(seen.permitted, u, now)
                                   ELSE seen.permitted,
                     was_checked |-> Get(seen.checked, u, 0),
                     was_permitted |-> Get(seen.permitted, u, 0)]
          /\ UNCHANGED <<now, conversations, user_cache, cache_expires, pages,
                         admin_users, running, last_update_id, pc, batch, inbox,
                         next_update_id, delivered, restarts>>

NextRL ==
    \/ CheckRate
    \/ Tick(1)
    \/ Tick(CACHE_TTL)

SpecRL == Init /\ [][NextRL]_vars

(***************************************************************************)
(* Claims about the rate limiter, checked under SpecRL.                    *)
(***************************************************************************)
\* C10: for the minimum interval T = MIN_INTERVAL and any user, a check made
\* less than T after the user's last permitted check returns (false, w)
\* with w > 0, the time still to wait; a check made at least T after it, or
\* with no permitted check before it, returns (true, 0); so of two checks at
\* least T apart the later is permitted whatever the earlier returned, and
\* both are when the earlier was the user's first.
C10_RateLimiter ==
    obs.op = "check" =>
      /\ (obs.was_permitted # 0 /\ obs.t - obs.was_permitted < MIN_INTERVAL) =>
            /\ obs.ret[1] = FALSE
            /\ obs.ret[2] > 0
            /\ obs.ret[2] = MIN_INTERVAL - (obs.t - obs.was_permitted)
      /\ (obs.was_permitted = 0 \/ obs.t - obs.was_permitted >= MIN_INTERVAL) =>
            obs.ret = <<TRUE, 0>>
      /\ (obs.was_checked # 0 /\ obs.t - obs.was_checked >= MIN_INTERVAL) =>
            obs.ret = <<TRUE, 0>>

\* a check exactly T after the user's last permitted check, with a refused
\* check in between
C10_Witness ==
    /\ obs.op = "check"
    /\ obs.ret = <<TRUE, 0>>
    /\ obs.was_permitted # 0
    /\ obs.t - obs.was_permitted = MIN_INTERVAL
    /\ obs.was_checked > obs.was_permitted

\* the step is a check
CheckStep ==
    /\ obs'.op = "check"
    /\ now' = now

\* C11: a refused check leaves the limiter's map as it was, for every user,
\* so refused checks never move the time from which the user is let pass
\* again; a permitted check sets the entry of the checked user to the clock
\* value of the check and leaves every other entry as it was.
C11_DeniedLeavesState ==
    [][CheckStep =>
         IF obs'.ret[1]
         THEN /\ DOMAIN user_last_request' = DOMAIN user_last_request \cup {obs'.user}
              /\ user_last_request'[obs'.user] = now
              /\ \A v \in DOMAIN user_last_request \ {obs'.user} :
                    user_last_request'[v] = user_last_request[v]
         ELSE /\ user_last_request' = user_last_request
              /\ \A v \in AuthUsers :
                    Get(user_last_request', v, 0) + MIN_INTERVAL
                      = Get(user_last_request, v, 0) + MIN_INTERVAL]_vars

\* the second of two refused checks in a row, while the map also holds the
\* entry of another user: the time of the last permitted check is still the
\* one recorded
C11_Witness ==
    /\ obs.op = "check"
    /\ ~obs.ret[1]
    /\ obs.was_checked > obs.was_permitted
    /\ obs.was_permitted # 0
    /\ user_last_request[obs.user] = obs.was_permitted
    /\ \E v \in DOMAIN user_last_request : v # obs.user

(***************************************************************************)
(* The rate limiter under a wall clock that may be set back: time.time()   *)
(* is the system clock, not a monotonic one.                               *)
(***************************************************************************)
\* the system clock is set back by d seconds
ClockSetBack(d) ==
    /\ now - d \in ClockValues
    /\ now' = now - d
    /\ UNCHANGED <<user_last_request, conversations, user_cache, cache_expires,
                   pages, admin_users, running, last_update_id, pc, batch, inbox,
                   next_update_id, delivered, restarts, obs>>

\* rate_limiter.can_make_request(u) at clock value now; the record kept of
\* it notes the time the map held for the user before the check
CheckRateAtClock ==
    \E u \in AuthUsers :
      LET r == can_make_request(user_last_request, u, now)
      IN  /\ user_last_request' = r.last
          /\ obs' = [op |-> "check", user |-> u, t |-> now, ret |-> r.ret,
                     was |-> Get(user_last_request, u, 0)]
          /\ UNCHANGED <<now, conversations, user_cache, cache_expires, pages,
                         admin_users, running, last_update_id, pc, batch, inbox,
                         next_update_id, delivered, restarts>>

NextRLClock ==
    \/ CheckRateAtClock
    \/ Tick(1)
    \/ Tick(CACHE_TTL)
    \/ ClockSetBack(1)
    \/ ClockSetBack(CACHE_TTL)

SpecRLClock == Init /\ [][NextRLClock]_vars

\* C12: for every user the recorded time of the last permitted check never
\* decreases, whatever the checks and also when a check is made at a clock
\* value smaller than that of an earlier check.
C12_NeverDecreases ==
    [][\A u \in AuthUsers :
         Get(user_last_request', u, 0) >= Get(user_last_request, u, 0)]_vars

\* a check made at a clock value below the one recorded for the user, after
\* the clock was set back: it is refused and the record stays
C12_Witness ==
    /\ obs.op = "check"
    /\ obs.user \in DOMAIN user_last_request
    /\ obs.t + MIN_INTERVAL <= obs.was
    /\ user_last_request[obs.user] = obs.was
    /\ ~obs.ret[1]

(***************************************************************************)
(* The conversation store alone (file_operations.py): lines of any user    *)
(* under any display name, replies of the bot, archives, and the two       *)
(* reads, at any clock value.                                              *)
(***************************************************************************)
StoreUsers == {42, 7}

StoreNames == {<<"a">>, <<"b">>}

StoreTexts == {<<"hi">>}

\* the lines the files of conv hold
RECURSIVE LinesIn(_)
LinesIn(conv) ==
    IF conv = <<>> THEN 0
    ELSE Cardinality({i \in 1..Len(Head(conv).content) : Head(conv).content[i] = "\n"})
         + LinesIn(Tail(conv))

\* the archive suffixes the file names of conv carry
RECURSIVE ArchiveSuffixes(_)
ArchiveSuffixes(conv) ==
    IF conv = <<>> THEN 0
    ELSE Cardinality({i \in 1..Len(Head(conv).name) : Head(conv).name[i] = "_archived_"})
         + ArchiveSuffixes(Tail(conv))

\* the name of the file at place i of the listing, None for place 0
NameAt(conv, i) == IF i = 0 THEN None ELSE conv[i].name

\* the calls of save_conversation the model makes: a line of user u under
\* a display name, or a reply of the bot to u
StoreWrites ==
    {[user |-> u, author_name |-> name, author_id |-> "USER"] :
        u \in StoreUsers, name \in StoreNames}
    \cup {[user |-> u, author_name |-> BOT_NAME, author_id |-> "BOT_ID"] :
             u \in StoreUsers}

\* the places a file may take in the listing when the call creates one
PlacesFor(w) ==
    IF FileIndex(conversations,
                 SaveTarget(conversations, w.user, w.author_name, w.author_id)) # 0
    THEN {1} ELSE 1..(Len(conversations) + 1)

\* save_conversation(u, author_name, text, author_id)
StoreSave ==
    /\ LinesIn(conversations) < MaxLines
    /\ \E w \in StoreWrites, text \in StoreTexts, ok \in BOOLEAN :
         \E pos \in (IF ok THEN PlacesFor(w) ELSE {1}) :
             /\ conversations' =
                   save_conversation(conversations, w.user, w.author_name, text,
                                     w.author_id, [ok |-> ok, pos |-> pos])
             /\ obs' = [op |-> "save", user |-> w.user, author_id |-> w.author_id,
                        ok |-> ok]
    /\ UNCHANGED <<now, user_last_request, user_cache, cache_expires, pages,
                   admin_users, running, last_update_id, pc, batch, inbox,
                   next_update_id, delivered, restarts>>

\* the outcomes of os.rename and of the listing that matter to the archive
\* of u's file: all of them when a file is renamed, one when none is
ArchiveOutcomes(u) ==
    IF FirstMatch(conversations, u) = 0
    THEN {[replace |-> TRUE, pos |-> 1]}
    ELSE {[replace |-> r, pos |-> p] :
            r \in BOOLEAN, p \in 1..Len(conversations)}

\* what the archive left, r, and the record kept of it
Archived(u, r) ==
    /\ ArchiveSuffixes(r.conv) <= MaxArchived
    /\ conversations' = r.conv
    /\ obs' = [op |-> "archive", user |-> u, ret |-> r.ret, to |-> r.to]

\* archive_conversation(u) at clock value now
StoreArchive ==
    /\ \E u \in StoreUsers :
         \E io \in ArchiveOutcomes(u) :
            Archived(u, archive_conversation(conversations, u, now, io))
    /\ UNCHANGED <<now, user_last_request, user_cache, cache_expires, pages,
                   admin_users, running, last_update_id, pc, batch, inbox,
                   next_update_id, delivered, restarts>>

\* find_username_by_user_id(u)
StoreFind ==
    /\ \E u \in StoreUsers :
         obs' = [op |-> "find", user |-> u,
                 file |-> find_username_by_user_id(conversations, u)]
    /\ UNCHANGED <<now, user_last_request, conversations, user_cache, cache_expires,
                   pages, admin_users, running, last_update_id, pc, batch, inbox,
                   next_update_id, delivered, restarts>>

\* get_recent_messages(u, k)
StoreRecent ==
    /\ \E u \in StoreUsers, k \in 0..MaxCount :
         obs' = [op |-> "recent", user |-> u, k |-> k,
                 ret |-> get_recent_messages(conversations, u, k),
                 file |-> NameAt(conversations, RecentTarget(conversations, u))]
    /\ UNCHANGED <<now, user_last_request, conversations, user_cache, cache_expires,
                   pages, admin_users, running, last_update_id, pc, batch, inbox,
                   next_update_id, delivered, restarts>>

NextStore ==
    \/ StoreSave
    \/ StoreArchive
    \/ StoreFind
    \/ StoreRecent
    \/ Tick(CACHE_TTL)

\* the store starts empty; the profile store plays no part
InitStore == Init /\ \A i \in 1..Len(pages) : pages[i].can_chat_bot

SpecStore == InitStore /\ [][NextStore]_vars

(***************************************************************************)
(* Claims about the conversation store, checked under SpecStore.           *)
(***************************************************************************)
\* the messages appended to the file at place i of the listing, oldest
\* first, each without its line end
LoggedMessages(conv, i) ==
    IF i = 0 THEN <<>>
    ELSE LET lines == ReadLines(conv[i].content)
         IN  [n \in 1..Len(lines) |-> SubSeq(lines[n], 1, Len(lines[n]) - 1)]

\* the last n elements of seq, in their order
LastN(seq, n) == SubSeq(seq, Len(seq) - n + 1, Len(seq))

Min(a, b) == IF a <= b THEN a ELSE b

\* C13 as the specification words it: for every user U and every k, 0
\* included, recent(U, k) returns the last min(k, N) of the N messages
\* appended to U's log, oldest first.
C13_Original ==
    obs.op = "recent" =>
      LET log == LoggedMessages(conversations, FirstMatch(conversations, obs.user))
      IN  obs.ret = LastN(log, Min(obs.k, Len(log)))

\* the users whose lines the file at place i holds
SendersIn(conv, i) == {u \in StoreUsers : Contains(conv[i].content, Marker(u))}

\* C14 as the specification words it: no file holds USER lines of two
\* different senders.
C14_Original ==
    \A i \in 1..Len(conversations) : Cardinality(SendersIn(conversations, i)) <= 1

\* s is the beginning of text
IsPrefixOf(s, text) == Len(s) <= Len(text) /\ SubSeq(text, 1, Len(s)) = s

\* C15 as the specification words it: whatever is appended or archived,
\* the content a file had is still there afterwards, as the beginning of the
\* content of the file of that name or of the name it was archived under.
C15_Original ==
    [][\A i \in 1..Len(conversations) :
         \E j \in 1..Len(conversations') :
            /\ IsPrefixOf(conversations[i].content, conversations'[j].content)
            /\ conversations'[j].name
                  \in {conversations[i].name,
                       ArchiveName(conversations[i].name, now)}]_vars

\* C16 as the specification words it: once archive(U) has succeeded, find(U)
\* and recent(U, n) do not resolve the file under its archived name.
C16_Original ==
    (obs.op = "archive" /\ obs.ret) =>
        /\ find_username_by_user_id(conversations, obs.user) # obs.to
        /\ NameAt(conversations, RecentTarget(conversations, obs.user)) # obs.to

\* the step is a read of the user the read before it was for, with no
\* append and no archive in between
ReadAgain ==
    /\ obs.op \in {"find", "recent"}
    /\ obs'.op \in {"find", "recent"}
    /\ obs'.user = obs.user
    /\ conversations' = conversations

DispatchTexts ==
    {<<"/make_admin", "@a">>, <<"/remove_admin", "@a">>, <<"/remove_admin", "@b">>,
     <<"/add", "@a">>, <<"/deactivate", "@b">>, <<"/add_id", "7">>,
     <<"/refresh_admins">>, <<"hello">>}

DispatchMessages ==
    {Msg(ADMIN_USER_ID, ADMIN_USER_ID, text, <<"s">>) : text \in DispatchTexts}
    \cup {Msg(42, 42, text, <<"a">>) : text \in DispatchTexts}
    \cup {Msg(ADMIN_USER_ID, ADMIN_USER_ID, <<"/add_id", "x">>, <<"s">>)}

\* the update is handled at clock value now, the world answering e
Dispatched(update, e) ==
    /\ Processed(update, e)
    /\ Len(pages') <= MaxPages

DispatchUpdate ==
    /\ next_update_id < FirstUpdateId + MaxDispatched
    /\ \E m \in DispatchMessages :
         \E e \in AdminEnvsGiven(TraceOf(Update(next_update_id, m), BaseEnv, now)) :
            Dispatched(Update(next_update_id, m), e)
    /\ next_update_id' = next_update_id + 1
    /\ UNCHANGED <<now, running, last_update_id, pc, batch, inbox, restarts>>

NextAdmin ==
    \/ DispatchUpdate
    \/ Tick(CACHE_TTL)

SpecAdmin == Init /\ [][NextAdmin]_vars

(***************************************************************************)
(* Claims about the dispatcher, checked under SpecAdmin.                   *)
(***************************************************************************)
\* the step handled an update
DispatchStep ==
    /\ next_update_id' = next_update_id + 1
    /\ obs'.op = "update"

StoreEvents == {"store_patch", "store_create"}

\* C18: an update whose sender is not on the roster when it is handled
\* issues no patch and no create to the profile store, leaves the pages and
\* the roster as they were and removes no entry from the cache, whatever its
\* text; when the text is a command the cache is left exactly as it was.
C18_PrivilegeGate ==
    [][(DispatchStep /\ obs'.update.message.user_id \notin admin_users) =>
         /\ ~Has(obs'.trace, StoreEvents \cup {"roster_query", "get_chat"})
         /\ pages' = pages
         /\ admin_users' = admin_users
         /\ \A u \in DOMAIN user_cache :
               /\ u \in DOMAIN user_cache'
               /\ u # obs'.update.message.user_id => user_cache'[u] = user_cache[u]
         /\ StartsWithSlash(obs'.update.message.text) =>
               /\ user_cache' = user_cache
               /\ cache_expires' = cache_expires]_vars

\* a sender who is not on the roster asked to be made an administrator
\* while the cache held an entry, and was told the command is not known
C18_Witness ==
    /\ obs.op = "update"
    /\ obs.update.message.user_id \notin admin_users
    /\ Head(obs.update.message.text) = "/make_admin"
    /\ obs.sent # <<>>
    /\ obs.sent[Len(obs.sent)].text = <<"I don't recognize that command.">>
    /\ user_cache # <<>>

\* C19: the roster holds the fallback admin ID in every reachable state:
\* at startup, after every reload, whether the store answered or not, and
\* after every promote and demote.
C19_FallbackAdmin == ADMIN_USER_ID \in admin_users

\* a reload after the fallback admin's own page was deactivated: the store
\* answers and does not list it
C19_Witness ==
    /\ obs.op = "update"
    /\ Has(obs.trace, {"roster_query"})
    /\ obs.e.q2 = "ok"
    /\ \A i \in 1..Len(pages) :
          pages[i].tid = ADMIN_USER_ID => ~(pages[i].active /\ pages[i].admin)
    /\ ADMIN_USER_ID \in admin_users

\* the step handled a demote command, and the page the store finds for
\* its handle carries the fallback admin ID
DemoteOfFallback ==
    /\ DispatchStep
    /\ Head(obs'.update.message.text) = "/remove_admin"
    /\ LET found == find_user_by_handle(pages, obs'.update.message.text[2],
                                        [query |-> obs'.e.q, pick |-> obs'.e.pick])
       IN  found # 0 /\ pages[found].tid = ADMIN_USER_ID

\* C20: a demote command whose target page carries the fallback admin ID
\* is refused, whoever sent it: no patch is issued, and the pages, the cache
\* and the roster are after the command as they were before it; a sender on
\* the roster is told that the primary admin cannot be demoted.
C20_DemoteRefused ==
    [][DemoteOfFallback =>
         /\ ~Has(obs'.trace, StoreEvents \cup {"roster_query"})
         /\ pages' = pages
         /\ user_cache' = user_cache
         /\ cache_expires' = cache_expires
         /\ admin_users' = admin_users
         /\ obs'.update.message.user_id \in admin_users =>
               obs'.sent = <<[chat_id |-> obs'.update.message.chat_id,
                              text |-> <<"/remove_admin", "primary admin">>]>>]_vars

\* a demote of the fallback admin was refused while the cache held an entry
C20_Witness ==
    /\ obs.op = "update"
    /\ Head(obs.update.message.text) = "/remove_admin"
    /\ obs.sent # <<>>
    /\ obs.sent[1].text = <<"/remove_admin", "primary admin">>
    /\ user_cache # <<>>
    /\ \E i \in 1..Len(pages) : pages[i].tid = ADMIN_USER_ID /\ pages[i].admin

(***************************************************************************)
(* The roster commands as _handle_message_sync reaches them, in private    *)
(* and in group chats, over stores that may hold two pages for one handle, *)
(* two pages for one user ID, or a page without a user ID.                 *)
(***************************************************************************)
RosterPages ==
    LET RosterPage(tid, handle, adm) ==
            [tid |-> tid, handle |-> handle, name |-> <<"a">>,
             can_chat_bot |-> TRUE, active |-> TRUE, admin |-> adm,
             context_lines |-> 3, extra |-> <<>>]
    IN  {<<[RosterPage(ADMIN_USER_ID, "@b", TRUE) EXCEPT !.name = <<"s">>],
           RosterPage(42, "@a", adm)>> \o third :
            adm \in BOOLEAN,
            third \in {<<>>, <<RosterPage(42, "@A", TRUE)>>,
                       <<RosterPage(0, "@A", FALSE)>>}}

RosterTexts ==
    {<<"/make_admin", "@a">>, <<"/remove_admin", "@a">>, <<"/remove_admin", "@b">>,
     <<"/refresh_admins">>}

RosterMessages ==
    {Msg(user_id, chat_id, text, <<"s">>) :
        user_id \in {ADMIN_USER_ID, 42},
        chat_id \in {ADMIN_USER_ID, GroupChat},
        text \in RosterTexts}
    \cup {Msg(ADMIN_USER_ID, ADMIN_USER_ID, <<"/deactivate", "@a">>, <<"s">>)}

InitRoster ==
    /\ now = StartTime
    /\ user_last_request = <<>>
    /\ conversations = <<>>
    /\ user_cache = <<>>
    /\ cache_expires = <<>>
    /\ pages \in RosterPages
    /\ \E q \in {"ok", "fail"} : admin_users = get_admin_users(pages, [query |-> q])
    /\ running = FALSE
    /\ last_update_id = 0
    /\ pc = "start"
    /\ batch = <<>>
    /\ inbox = <<>>
    /\ next_update_id = FirstUpdateId
    /\ delivered = {}
    /\ restarts = 0
    /\ obs = [op |-> "init"]

RosterUpdate ==
    /\ next_update_id < FirstUpdateId + MaxDispatched
    /\ \E m \in RosterMessages :
         \E e \in AdminEnvsGiven(TraceOf(Update(next_update_id, m), BaseEnv, now)) :
            Dispatched(Update(next_update_id, m), e)
    /\ next_update_id' = next_update_id + 1
    /\ UNCHANGED <<now, running, last_update_id, pc, batch, inbox, restarts>>

\* no command of RosterTexts reads the clock
SpecRoster == InitRoster /\ [][RosterUpdate]_vars

(***************************************************************************)
(* Claims about promote, demote and the kind of chat, checked under        *)
(* SpecRoster.                                                             *)
(***************************************************************************)
\* the step handled the command name and told its sender that it was done
CommandDone(name) ==
    /\ DispatchStep
    /\ Head(obs'.update.message.text) = name
    /\ obs'.sent # <<>>
    /\ obs'.sent[Len(obs'.sent)].text = <<name, "done">>

\* the user ID on the page the command of the step found by its handle
TargetId ==
    pages[find_user_by_handle(pages, obs'.update.message.text[2],
                              [query |-> obs'.e.q, pick |-> obs'.e.pick])].tid

\* C21 as stated: after a successful promote of a user with a numeric ID
\* that ID is on the roster, and after a successful demote of a user other
\* than the fallback admin that ID is not on it.
C21_Original ==
    [][/\ (CommandDone("/make_admin") /\ TargetId # 0) => TargetId \in admin_users'
       /\ (CommandDone("/remove_admin") /\ TargetId # ADMIN_USER_ID) =>
             TargetId \notin admin_users']_vars

\* some other page of the store that is active and an admin's carries tid
ListedElsewhere(store, tid) ==
    \E i \in 1..Len(store) : store[i].active /\ store[i].admin /\ store[i].tid = tid

\* C21: the roster is reloaded as part of a successful promote or demote.
\* When the store answers the reload, the promoted user's numeric ID is on
\* the roster when the command returns, and the demoted user's ID (not the
\* fallback admin's) is on it only if an active admin page of the store
\* still carries that ID; when the store does not answer the reload, the
\* roster is the fallback admin ID alone.
C21_RosterReloaded ==
    [][(CommandDone("/make_admin") \/ CommandDone("/remove_admin")) =>
         /\ Has(obs'.trace, {"roster_query"})
         /\ obs'.e.q2 # "ok" => admin_users' = {ADMIN_USER_ID}
         /\ (obs'.e.q2 = "ok" /\ CommandDone("/make_admin") /\ TargetId # 0) =>
               TargetId \in admin_users'
         /\ (obs'.e.q2 = "ok" /\ CommandDone("/remove_admin")
                            /\ TargetId # ADMIN_USER_ID) =>
               (TargetId \in admin_users' <=> ListedElsewhere(pages', TargetId))]_vars

\* a user who was not on the roster was promoted and is on it
C21_Witness ==
    /\ obs.op = "update"
    /\ Head(obs.update.message.text) = "/make_admin"
    /\ obs.sent # <<>>
    /\ obs.sent[Len(obs.sent)].text = <<"/make_admin", "done">>
    /\ obs.e.q2 = "ok"
    /\ next_update_id = FirstUpdateId + 1
    /\ 42 \in admin_users
    /\ Len(pages) = 2

\* the step handled, in a group chat, a text of a sender on the roster that
\* the dispatcher takes for one of its commands
PrivilegedGroupCommand ==
    /\ DispatchStep
    /\ obs'.update.message.user_id \in admin_users
    /\ is_group_chat(obs'.update.message.chat_id)
    /\ StartsWithSlash(obs'.update.message.text)
    /\ handle_admin_command_sync(Fresh, obs'.update.message, obs'.e).handled

\* what the handling of the step's update leaves when the same message
\* comes from the sender's private chat, the world answering the same
InPrivate ==
    process_update_sync(Fresh,
                        [obs'.update EXCEPT !.message.chat_id =
                                               obs'.update.message.user_id],
                        obs'.e, now)

TextsOf(sent) == [i \in 1..Len(sent) |-> sent[i].text]

\* C22: a recognized admin command with enough arguments, sent by a member
\* of the roster in a group chat, leaves the profile store, the cache and
\* the roster as the same command leaves them in a private chat, is
\* answered with the same texts, and is never answered with the
\* group-redirect notice.
C22_GroupAsPrivate ==
    [][PrivilegedGroupCommand =>
         /\ pages' = InPrivate.store
         /\ user_cache' = InPrivate.cache
         /\ cache_expires' = InPrivate.expires
         /\ admin_users' = InPrivate.admins
         /\ TextsOf(obs'.sent) = TextsOf(InPrivate.sent)
         /\ \A i \in 1..Len(obs'.sent) :
               /\ obs'.sent[i].text # GROUP_REDIRECT_MESSAGE
               /\ obs'.sent[i].chat_id = obs'.update.message.chat_id]_vars

\* a promote sent in a group chat was carried out and answered there
C22_Witness ==
    /\ obs.op = "update"
    /\ is_group_chat(obs.update.message.chat_id)
    /\ Head(obs.update.message.text) = "/make_admin"
    /\ obs.sent = <<[chat_id |-> GroupChat, text |-> <<"/make_admin", "done">>]>>
    /\ Has(obs.trace, {"store_patch"})
    /\ pages[2].admin
    /\ 42 \in admin_users

(***************************************************************************)
(* Claims about errors raised while an update is handled.                  *)
(***************************************************************************)
\* the step is the loop's call of _process_update_sync
LoopHandled ==
    /\ pc = "for"
    /\ batch # <<>>
    /\ batch' # batch
    /\ obs'.op = "update"
    /\ obs'.update = Head(batch)

\* C23: an error raised while the loop handles an update stops at that
\* update: the loop is still running and inside its batch, whose remaining
\* updates are all still to be handled, and the offset of the next
\* getUpdates call is what it was.
C23_ErrorContained ==
    [][(LoopHandled /\ obs'.raised) =>
         /\ pc' = "for"
         /\ running' = running
         /\ batch' = Tail(batch)
         /\ last_update_id' = last_update_id]_vars

\* the handling of the first update of a batch of two raised an error, and
\* the loop is about to handle the second
C23_Witness ==
    /\ obs.op = "update"
    /\ obs.raised
    /\ pc = "for"
    /\ running
    /\ Len(batch) = 1
    /\ batch[1].update_id = obs.update.update_id + 1
    /\ batch[1].update_id \notin delivered

\* C24 as stated: whenever the handling of an update raised an error, the
\* sender was sent the apology.
C24_Original ==
    (obs.op = "update" /\ obs.raised) =>
        \E i \in 1..Len(obs.sent) :
            /\ obs.sent[i].chat_id = obs.update.message.chat_id
            /\ obs.sent[i].text = APOLOGY

\* C25 as stated: the loop does not go from a failed fetch straight to the
\* next getUpdates call; a pause comes between the two.
C25_Original ==
    [][(pc = "while" /\ running /\ obs.op = "end_batch" /\ obs.fetch_failed) =>
          ~(pc' = "got" /\ obs'.op = "get_updates" /\ now' = now)]_vars

(***************************************************************************)
(* Claims about the conversation step.                                     *)
(***************************************************************************)
\* how many times the handling did ev
CountOf(trace, ev) == Cardinality({i \in 1..Len(trace) : trace[i] = ev})

\* the step handled "hello", sent in a private chat by a user without any
\* log, whom the authorization check let in with a window of 3 lines and the
\* rate limiter lets pass; every write and request succeeds
FirstHello ==
    /\ HandledMessage
    /\ obs'.update.message.text = <<"hello">>
    /\ obs'.update.message.chat_id > 0
    /\ find_username_by_user_id(conversations, obs'.update.message.user_id) = None
    /\ FileIndex(conversations,
                 sanitize_filename(obs'.update.message.first_name)) = 0
    /\ can_make_request(user_last_request, obs'.update.message.user_id, now).ret[1]
    /\ obs'.e.io_user /\ obs'.e.io_bot /\ obs'.e.q = "ok" /\ obs'.e.backend = "ok"
    /\ obs'.auth # <<>>
    /\ obs'.auth[1]
    /\ obs'.auth[3] = 3

\* C26 as stated: the first message of an authorized user.  The log gains
\* one USER line, the context has two turns, its system turn holds the
\* placeholder for the history (and the one for the profile when the profile
\* text is empty), the backend is called once, and what it returned is
\* logged as a BOT line and sent.
C26_Original ==
    [][FirstHello =>
         LET m == obs'.update.message
             system == obs'.context[1].content
             user_line == FormatMessage(m.user_id, m.first_name, m.text, "USER")
             bot_line == FormatMessage(m.user_id, BOT_NAME, <<"reply">>, "BOT_ID")
         IN  /\ Occurrences(conversations', user_line)
                   = Occurrences(conversations, user_line) + 1
             /\ Len(obs'.context) = 2
             /\ IsBlank(obs'.auth[2]) =>
                   Contains(system, <<"No specific profile data available.">>)
             /\ Contains(system, <<"No previous conversation.">>)
             /\ CountOf(obs'.trace, "backend") = 1
             /\ Occurrences(conversations', bot_line)
                   = Occurrences(conversations, bot_line) + 1
             /\ obs'.sent = <<[chat_id |-> m.chat_id, text |-> <<"reply">>]>>]_vars

(***************************************************************************)
(* The conversation step alone: plain messages in private chats, every     *)
(* outcome of the backend call, and a log write that succeeds or fails.    *)
(***************************************************************************)
ReplyMessages ==
    {Msg(42, 42, <<"hello">>, <<"a">>),
     Msg(ADMIN_USER_ID, ADMIN_USER_ID, <<"hello">>, <<"s">>)}

\* the backend's outcome, "raise" for an error raised outside its own try
\* block, and whether the write of the bot's line succeeds; or one failure
\* of the file system while the sender's line is written or the history read
ReplyEnvs ==
    {[BaseEnv EXCEPT !.backend = b, !.io_bot = w] :
        b \in {"ok", "none", "rate_limit", "api_error", "other", "raise"},
        w \in BOOLEAN}
    \cup {[BaseEnv EXCEPT !.io_user = FALSE], [BaseEnv EXCEPT !.mkdir_ok = FALSE]}
    \cup {[BaseEnv EXCEPT !.io_recent = r] : r \in {"listdir", "scan", "read"}}

ReplyUpdate ==
    /\ next_update_id < FirstUpdateId + MaxHandled
    /\ \E m \in ReplyMessages :
         \E e \in ReplyEnvs :
            Processed(Update(next_update_id, m), e)
    /\ next_update_id' = next_update_id + 1
    /\ UNCHANGED <<now, running, last_update_id, pc, batch, inbox, restarts>>

SpecReply == Init /\ [][ReplyUpdate \/ Tick(MIN_INTERVAL)]_vars

\* the step reached the conversation step (step 7)
ReachedReply == HandledMessage /\ Has(obs'.trace, {"typing"})

BotMarker == <<"[ID: ", "BOT_ID", "]:">>

\* the BOT line whose body is the last text the handling sent
LineOfReply(o) ==
    FormatMessage(o.update.message.user_id, BOT_NAME, o.sent[Len(o.sent)].text,
                  "BOT_ID")

\* the bot's line is written once, before the one message that is sent
LoggedThenSent(o) ==
    /\ CountOf(o.trace, "save_bot") = 1
    /\ CountOf(o.trace, "send") = 1
    /\ IndexOf(o.trace, "save_bot") < IndexOf(o.trace, "send")
    /\ Len(o.sent) = 1
    /\ o.sent[1].chat_id = o.update.message.chat_id

\* C27 as stated: whenever the conversation step is reached, exactly one BOT
\* line is appended, its body is the text sent, and it is logged before it
\* is sent.
C27_Original ==
    [][ReachedReply =>
         /\ LoggedThenSent(obs')
         /\ Occurrences(conversations', BotMarker)
               = Occurrences(conversations, BotMarker) + 1
         /\ Occurrences(conversations', LineOfReply(obs'))
               = Occurrences(conversations, LineOfReply(obs')) + 1]_vars

\* C27: whenever the conversation step is reached, the bot's line is
\* written once, with the text that is then sent to the user as its body,
\* whether the backend succeeded, failed with any of its error kinds,
\* returned nothing, or the step raised before the write.  Unless the write
\* fails, exactly one BOT line is appended; when it fails no line is
\* appended and the text is sent all the same.
C27_OutcomeLogged ==
    [][ReachedReply =>
         /\ LoggedThenSent(obs')
         /\ IF obs'.e.io_bot
            THEN /\ Occurrences(conversations', BotMarker)
                      = Occurrences(conversations, BotMarker) + 1
                 /\ Occurrences(conversations', LineOfReply(obs'))
                      = Occurrences(conversations, LineOfReply(obs')) + 1
            ELSE Occurrences(conversations', BotMarker)
                   = Occurrences(conversations, BotMarker)]_vars

\* the backend returned nothing, and the apology for it was logged and sent
C27_Witness ==
    /\ obs.op = "update"
    /\ Has(obs.trace, {"typing"})
    /\ obs.e.backend = "none"
    /\ obs.e.io_bot
    /\ Len(obs.sent) = 1
    /\ Occurrences(conversations, LineOfReply(obs)) = 1
    /\ Occurrences(conversations, BotMarker) = 2

(***************************************************************************)
(* The context assembler alone (build_conversation_context): profile       *)
(* texts that are empty, blank or not, histories of no, one or two lines,  *)
(* and messages with blanks and line ends in them.                         *)
(***************************************************************************)
AssembleProfiles ==
    {<<>>, <<" ">>, <<" ", "\n">>, <<"role: ", "chef">>, <<" ", "role: ", "chef", "\n">>}

AssembleHistories ==
    {<<>>, <<<<"l1">>>>, <<<<"l1">>, <<"l2">>>>, <<<<"l2">>, <<"l1">>>>, <<<<>>>>}

AssembleMessages ==
    {<<"hello">>, <<" ", "hello", " ">>, <<"hello", "\n", "there">>, <<"l1">>}

\* build_conversation_context(bot_persona, profile, history, message)
Assemble ==
    /\ \E user_profile \in AssembleProfiles :
         \E conversation_history \in AssembleHistories :
            \E current_message \in AssembleMessages :
               obs' = [op |-> "assemble",
                       user_profile |-> user_profile,
                       conversation_history |-> conversation_history,
                       current_message |-> current_message,
                       ret |-> build_conversation_context(
                                   bot_persona, user_profile,
                                   conversation_history, current_message)]
    /\ UNCHANGED <<now, user_last_request, conversations, user_cache, cache_expires,
                   pages, admin_users, running, last_update_id, pc, batch, inbox,
                   next_update_id, delivered, restarts>>

SpecAssemble == Init /\ [][Assemble]_vars

\* where pat first begins in s, 0 when it does not occur
PlaceOf(s, pat) ==
    IF Contains(s, pat)
    THEN CHOOSE i \in 1..Len(s) :
            /\ i + Len(pat) - 1 <= Len(s)
            /\ SubSeq(s, i, i + Len(pat) - 1) = pat
            /\ \A j \in 1..(i - 1) : SubSeq(s, j, j + Len(pat) - 1) # pat
    ELSE 0

\* nothing but blanks and line ends
OnlyWhitespace(text) == \A i \in 1..Len(text) : text[i] \in {" ", "\n"}

\* the lines occur in content one after the other from place i on, with a
\* line end between two of them and nothing else
RECURSIVE LinesAt(_, _, _)
LinesAt(content, lines, i) ==
    IF lines = <<>> THEN TRUE
    ELSE /\ i + Len(lines[1]) - 1 <= Len(content)
         /\ SubSeq(content, i, i + Len(lines[1]) - 1) = lines[1]
         /\ \/ Len(lines) = 1
            \/ /\ i + Len(lines[1]) <= Len(content)
               /\ content[i + Len(lines[1])] = "\n"
               /\ LinesAt(content, Tail(lines), i + Len(lines[1]) + 1)

\* C28: the assembler returns two turns.  The first is a system turn that
\* begins with the persona, then holds the profile section, with the profile
\* text as given or, exactly when that text is empty or blank, the
\* no-profile placeholder, and after it the history section, with the lines
\* in their order joined by line ends or, exactly when there is no line,
\* the no-history placeholder.  The second is a user turn whose content is
\* the current message as given.
C28_TwoTurns ==
    obs.op = "assemble" =>
      LET system == obs.ret[1].content
          profile_at == PlaceOf(system, <<"EMPLOYEE PROFILE DATA:">>)
          history_at == PlaceOf(system, <<"RECENT CONVERSATION HISTORY:">>)
          end_at == PlaceOf(system, <<"Instructions:">>)
          profile_part == SubSeq(system, profile_at + 1, history_at - 1)
          history_part == SubSeq(system, history_at + 1, end_at - 1)
      IN  /\ Len(obs.ret) = 2
          /\ obs.ret[1].role = "system"
          /\ obs.ret[2] = [role |-> "user", content |-> obs.current_message]
          /\ SubSeq(system, 1, Len(bot_persona)) = bot_persona
          /\ profile_at = Len(bot_persona) + 1
          /\ profile_at < history_at
          /\ history_at < end_at
          /\ IF OnlyWhitespace(obs.user_profile)
             THEN profile_part = <<"No specific profile data available.">>
             ELSE profile_part = obs.user_profile
          /\ IF obs.conversation_history = <<>>
             THEN history_part = <<"No previous conversation.">>
             ELSE /\ LinesAt(history_part, obs.conversation_history, 1)
                  /\ ~Contains(history_part, <<"No previous conversation.">>)

\* a blank profile and a history of two lines were assembled
C28_Witness ==
    /\ obs.op = "assemble"
    /\ obs.user_profile = <<" ", "\n">>
    /\ obs.conversation_history = <<<<"l2">>, <<"l1">>>>
    /\ obs.current_message = <<" ", "hello", " ">>
    /\ Contains(obs.ret[1].content, <<"No specific profile data available.">>)
    /\ Contains(obs.ret[1].content, <<"l2", "\n", "l1">>)

(***************************************************************************)
(* Claims about the order of the loop's steps and about stopping.          *)
(***************************************************************************)
\* the step issues a getUpdates call
Fetches == pc = "while" /\ pc' = "got"

\* C29: updates are handled one at a time and in the order received.  Each
\* handling step of the loop handles the first update the batch still holds
\* and no other, and a getUpdates call is issued only when every update
\* received so far has been handled: none is pending while the next batch
\* is fetched.
C29_OneAtATime ==
    [][/\ LoopHandled =>
             /\ batch' = Tail(batch)
             /\ delivered' = delivered \cup {Head(batch).update_id}
       /\ Fetches =>
             /\ batch = <<>>
             /\ \A i \in FirstUpdateId..last_update_id : i \in delivered
       /\ (delivered' # delivered \/ conversations' # conversations) =>
             (LoopHandled /\ ~Fetches)]_vars

\* a batch of two updates was handled to its end and the next getUpdates
\* call has been issued
C29_Witness ==
    /\ pc = "got"
    /\ obs.op = "get_updates"
    /\ obs.offset = FirstUpdateId + MaxUpdates
    /\ delivered = FirstUpdateId..(FirstUpdateId + MaxUpdates - 1)
    /\ conversations # <<>>

\* the thread that runs start_polling keeps running
SpecStop ==
    Spec /\ WF_vars(AfterGet) /\ WF_vars(EndBatch) /\ WF_vars(ExitLoop)

\* the loop has been told to stop and has not returned yet
StopRequested == pc \in {"while", "got", "for"} /\ ~running

\* C30: once stop() has set the running flag to false, the loop handles no
\* further update and issues no further getUpdates call, and start_polling
\* returns.
C30_StopTerminates ==
    /\ [][StopRequested =>
             /\ delivered' = delivered
             /\ conversations' = conversations
             /\ last_update_id' = last_update_id
             /\ ~Fetches
             /\ obs'.op \notin {"update", "get_updates"} \/ obs' = obs]_vars
    /\ (StopRequested ~> pc = "stopped")

\* stop() came while the batch still held an update: the update was left
\* unhandled and start_polling has returned
C30_Witness ==
    /\ pc = "stopped"
    /\ ~running
    /\ obs.op = "end_batch"
    /\ obs.skipped # <<>>
    /\ \A k \in 1..Len(obs.skipped) : obs.skipped[k].update_id \notin delivered

(***************************************************************************)
(* The polling loop over a transport whose first update carries the ID 0.  *)
(***************************************************************************)
InitFromZero ==
    /\ now = StartTime
    /\ user_last_request = <<>>
    /\ conversations = <<>>
    /\ user_cache = <<>>
    /\ cache_expires = <<>>
    /\ pages \in InitialPages
    /\ admin_users = get_admin_users(pages, [query |-> "ok"])
    /\ running = FALSE
    /\ last_update_id = 0
    /\ pc = "start"
    /\ batch = <<>>
    /\ inbox = <<>>
    /\ next_update_id = 0
    /\ delivered = {}
    /\ restarts = 0
    /\ obs = [op |-> "init"]

\* an update the transport hands out again and again is handled every time:
\* the logs are let grow up to MaxLogged lines
ProcessLogged ==
    LET ends == UNION {{<<i, j>> : j \in {k \in 1..Len(conversations[i].content) :
                                             conversations[i].content[k] = "\n"}} :
                       i \in 1..Len(conversations)}
    IN  Cardinality(ends) < MaxLogged /\ ProcessUpdate

SpecFromZero ==
    InitFromZero /\ [][Arrive \/ StartPolling \/ GetUpdates \/ AfterGet
                         \/ ProcessLogged \/ EndBatch]_vars

\* the greatest element of a non-empty set of numbers
MaxOf(S) == CHOOSE x \in S : \A y \in S : y <= x

\* C31 as stated: once an update has been seen, every getUpdates call
\* carries an offset, one plus the highest update ID seen so far, also when
\* that ID is 0, and the offset never decreases from one call to the next.
\* (Without a stop every update seen has been handled when the next call is
\* issued; an offset of 0 in the record of a call stands for none sent.)
C31_Original ==
    [][(Fetches /\ delivered # {}) =>
          /\ obs'.offset = MaxOf(delivered) + 1
          /\ obs.op = "get_updates" => obs'.offset >= obs.offset]_vars

(***************************************************************************)
(* The gates of the handler: commands, group messages, authorization and   *)
(* the rate limiter, for a privileged and an unprivileged sender.          *)
(***************************************************************************)
GateMessages ==
    {Msg(u, c, t, <<"a">>) :
        u \in {42, ADMIN_USER_ID}, c \in {42, GroupChat},
        t \in {<<"hello">>, <<"/start">>}}
    \cup {Msg(42, 42, <<>>, <<"a">>)}

GateUpdate ==
    /\ next_update_id < FirstUpdateId + MaxHandled
    /\ \E m \in GateMessages :
         \E e \in {[BaseEnv EXCEPT !.q = q] : q \in {"ok", "fail"}}
                    \cup {[BaseEnv EXCEPT !.io_user = FALSE]} :
            Processed(Update(next_update_id, m), e)
    /\ next_update_id' = next_update_id + 1
    /\ UNCHANGED <<now, running, last_update_id, pc, batch, inbox, restarts>>

SpecGate == Init /\ [][GateUpdate \/ Tick(1)]_vars

\* the step handled a message that is no command and came from a group chat
GroupMessageHandled ==
    /\ HandledMessage
    /\ Loggable(obs'.update.message)
    /\ ~StartsWithSlash(obs'.update.message.text)
    /\ obs'.update.message.chat_id < 0

\* C32: a message that is no command and comes from a group chat gets one
\* reply, the redirect notice, sent to the group; the authorization cache,
\* the rate limiter's state and the profile store stay as they were, and
\* neither the profile store nor the backend is called, whether the sender
\* is on the roster of administrators or not.
C32_GroupRedirect ==
    [][GroupMessageHandled =>
         /\ obs'.sent = <<[chat_id |-> obs'.update.message.chat_id,
                           text |-> GROUP_REDIRECT_MESSAGE]>>
         /\ UNCHANGED <<user_cache, cache_expires, user_last_request, pages,
                        admin_users>>
         /\ ~Has(obs'.trace, {"authorize", "store_query", "rate_check", "typing",
                              "backend", "save_bot", "store_patch",
                              "store_create", "roster_query"})]_vars

\* an administrator's plain message in a group was answered with the notice
C32_Witness ==
    /\ obs.op = "update"
    /\ obs.update.message.user_id \in admin_users
    /\ obs.update.message.chat_id < 0
    /\ ~StartsWithSlash(obs.update.message.text)
    /\ TextsOf(obs.sent) = <<GROUP_REDIRECT_MESSAGE>>

\* C33: the rate limiter's state changes only when an update reaches the
\* rate check and is let pass, and then only the sender's entry changes:
\* commands, group messages and senders whose authorization says no never
\* create or change an entry.
C33_RateStateFrame ==
    [][user_last_request' # user_last_request =>
         /\ HandledMessage
         /\ ~StartsWithSlash(obs'.update.message.text)
         /\ obs'.update.message.chat_id > 0
         /\ obs'.auth # <<>> /\ obs'.auth[1]
         /\ obs'.rate # <<>> /\ obs'.rate[1]
         /\ user_last_request'
               = Put(user_last_request, obs'.update.message.user_id, now)]_vars

\* a sender was refused by the rate limiter after an earlier message of
\* theirs had made the entry
C33_Witness ==
    /\ obs.op = "update"
    /\ obs.rate # <<>>
    /\ ~obs.rate[1]
    /\ Get(user_last_request, obs.update.message.user_id, 0) # 0

(***************************************************************************)
(* Failures of the conversation store while an update is handled.          *)
(***************************************************************************)
\* the file system failed the store while the step handled a message
StoreFailed ==
    /\ HandledMessage
    /\ Loggable(obs'.update.message)
    /\ \/ ~obs'.e.io_user
       \/ ~obs'.e.mkdir_ok /\ conversations = <<>>
       \/ obs'.e.io_recent # "ok" /\ Has(obs'.trace, {"recent"})

\* the history section of the system turn holds the placeholder
NoHistoryGiven(o) ==
    /\ o.context # <<>>
    /\ Contains(o.context[1].content, <<"No previous conversation.">>)

\* C34 as stated: a failure of the conversation store does not leave the
\* handler: the handling goes on to its reply, a failed write of the
\* sender's line leaves the logs without that line, and a failed listing or
\* read in get_recent_messages gives the empty history.
C34_Original ==
    [][StoreFailed =>
         /\ ~obs'.raised
         /\ Len(obs'.sent) = 1
         /\ ~obs'.e.io_user =>
               Occurrences(conversations',
                           Marker(obs'.update.message.user_id))
                 = Occurrences(conversations, Marker(obs'.update.message.user_id))
         /\ obs'.e.io_recent \in {"listdir", "read"} => NoHistoryGiven(obs')]_vars

(***************************************************************************)
(* Where a grant of authorize comes from, checked under SpecAuth.          *)
(***************************************************************************)
\* the step is an authorize call for u whose query the store answered with
\* a page that is active and has the access flag set
GrantingResponse(u) ==
    /\ AuthStep
    /\ obs'.user = u
    /\ obs'.queried
    /\ obs'.q.query = "ok"
    /\ ActivePagesOf(u) # {}
    /\ pages[FirstOf(ActivePagesOf(u), obs'.q.pick)].can_chat_bot

\* the cache holds a grant for u
CachedGrant(cache, u) == u \in DOMAIN cache /\ cache[u][1]

\* C35: authorize never grants on unverified data.  A call returns
\* authorized = true only when the store answers it with an active page
\* whose access flag is set, or when the cache holds a grant for the user;
\* a grant enters the cache only with such an answer for that user, an
\* answer of the store that is no grant replaces it, and every admin command
\* that changes the store empties the cache.  So a grant always rests on the
\* latest answer of the store for the user, obtained after the last
\* successful mutation.
C35_GrantVerified ==
    [][/\ (AuthStep /\ obs'.ret[1]) =>
             \/ GrantingResponse(obs'.user)
             \/ /\ CachedGrant(user_cache, obs'.user)
                /\ ~obs'.queried \/ obs'.q.query = "raise"
       /\ \A u \in DOMAIN user_cache' :
             (user_cache'[u][1] /\ ~CachedGrant(user_cache, u)) => GrantingResponse(u)
       /\ (AuthStep /\ obs'.queried /\ obs'.q.query \in {"ok", "fail"}
              /\ ~GrantingResponse(obs'.user)) =>
             ~CachedGrant(user_cache', obs'.user)
       /\ pages' # pages => (user_cache' = <<>> /\ cache_expires' = <<>>)]_vars

\* a grant was returned from an entry that had expired, the answer of the
\* store being unreadable
C35_Witness ==
    /\ obs.op = "authorize"
    /\ obs.ret[1]
    /\ obs.queried
    /\ obs.q.query = "raise"

(***************************************************************************)
(* The conversation store when a message body holds the text of another    *)
(* user's ID marker.                                                       *)
(***************************************************************************)
\* save_conversation(7, name, text, "USER"): user 7 sends a message whose
\* body holds the marker of user 42
StoreForge ==
    /\ LinesIn(conversations) < MaxLines
    /\ \E name \in StoreNames :
         \E pos \in PlacesFor([user |-> 7, author_name |-> name, author_id |-> "USER"]) :
             /\ conversations' =
                   save_conversation(conversations, 7, name,
                                     <<"see">> \o Marker(42), "USER",
                                     [ok |-> TRUE, pos |-> pos])
             /\ obs' = [op |-> "save", user |-> 7, author_id |-> "USER", ok |-> TRUE]
    /\ UNCHANGED <<now, user_last_request, user_cache, cache_expires, pages,
                   admin_users, running, last_update_id, pc, batch, inbox,
                   next_update_id, delivered, restarts>>

SpecForged ==
    InitStore /\ [][StoreForge \/ StoreSave \/ StoreFind \/ StoreRecent]_vars

\* the line was written for a message of user u: the marker of u stands in
\* its head, before the "---" that opens the body
AuthoredBy(line, u) ==
    \E k \in 1..Len(line) :
        /\ k + Len(Marker(u)) - 1 <= Len(line)
        /\ SubSeq(line, k, k + Len(Marker(u)) - 1) = Marker(u)
        /\ \A j \in 1..(k - 1) : line[j] # "---"

\* C36 as stated: find(U) and recent(U, n) resolve only to a file that
\* holds a line written for a message of U; a body that holds the text of
\* U's marker never makes the file it is in the one resolved for U.
C36_Original ==
    (obs.op \in {"find", "recent"} /\ obs.file # None) =>
        LET lines == ReadLines(conversations[FileIndex(conversations, obs.file)].content)
        IN  \E n \in 1..Len(lines) : AuthoredBy(lines[n], obs.user)

(***************************************************************************)
(* The roster and the store after a deactivation, checked under            *)
(* SpecRoster.                                                             *)
(***************************************************************************)
\* every member of the roster but the fallback admin has an active admin
\* page in the store
RosterBacked(roster, store) ==
    \A u \in roster \ {ADMIN_USER_ID} : ListedElsewhere(store, u)

\* the step handled a command and the profile store answered every call
AllAnswered ==
    /\ DispatchStep
    /\ obs'.e.q = "ok"
    /\ obs'.e.patch_ok
    /\ obs'.e.q2 = "ok"

\* C37 as stated: admin commands whose profile-store calls all succeed keep
\* every member of the roster but the fallback admin backed by an active
\* admin page of the store, so that a deactivated user is off the roster
\* when the command returns.
C37_Original ==
    [][(AllAnswered /\ RosterBacked(admin_users, pages)) =>
          RosterBacked(admin_users', pages')]_vars

\* C37: every member of the roster but the fallback admin had an active
\* admin page in the store when the roster was last loaded.  A command that
\* reloads the roster (promote, demote, reload) leaves it backed by the
\* store when the store answers the reload, and the fallback admin alone
\* when it does not; every other command leaves the roster as it was, so a
\* member who has been deactivated is still on the roster, and is still
\* treated as privileged, until the next reload.
C37_RosterAsLoaded ==
    [][DispatchStep =>
         /\ ADMIN_USER_ID \in admin_users'
         /\ IF Has(obs'.trace, {"roster_query"})
            THEN IF obs'.e.q2 = "ok" THEN RosterBacked(admin_users', pages')
                 ELSE admin_users' = {ADMIN_USER_ID}
            ELSE admin_users' = admin_users
         /\ (CommandDone("/deactivate") /\ TargetId \in admin_users) =>
               /\ TargetId \in admin_users'
               /\ is_admin_user([admins |-> admin_users'], TargetId)]_vars

\* a member of the roster whose page has been deactivated sent a command,
\* and it was handled as an administrator's
C37_Witness ==
    /\ obs.op = "update"
    /\ obs.update.message.user_id = 42
    /\ 42 \in admin_users
    /\ ~RosterBacked(admin_users, pages)
    /\ Has(obs.trace, {"store_query", "roster_query"})
    /\ \A i \in 1..Len(pages) : pages[i].tid = 42 => ~pages[i].active

(***************************************************************************)
(* Admin commands that fail, checked under SpecAdmin.                      *)
(***************************************************************************)
MutatingCommands ==
    {"/add", "/remove", "/activate", "/deactivate", "/add_id", "/make_admin",
     "/remove_admin"}

\* the step handled a mutating command of a member of the roster, and the
\* command failed: the handle was not found, the ID was no number, the
\* transport gave no identity, or the store refused the patch or the create
FailedCommand ==
    /\ DispatchStep
    /\ obs'.update.message.user_id \in admin_users
    /\ Head(obs'.update.message.text) \in MutatingCommands
    /\ Len(obs'.update.message.text) >= 2
    /\ \/ obs'.e.q # "ok"
       \/ ~obs'.e.patch_ok
       \/ /\ Head(obs'.update.message.text) = "/add_id"
          /\ IntOf(obs'.update.message.text[2]) = -1
       \/ /\ Head(obs'.update.message.text) # "/add_id"
          /\ find_user_by_handle(pages, obs'.update.message.text[2],
                                 [query |-> "ok", pick |-> 1]) = 0

\* C38: a mutating admin command that fails leaves the authorization
\* cache, the roster and the profile store as they were, and its sender is
\* sent one message, which says that it failed.
C38_FailureFrame ==
    [][FailedCommand =>
         /\ user_cache' = user_cache
         /\ cache_expires' = cache_expires
         /\ admin_users' = admin_users
         /\ pages' = pages
         /\ Len(obs'.sent) = 1
         /\ obs'.sent[1].chat_id = obs'.update.message.chat_id
         /\ obs'.sent[1].text \in
               {<<Head(obs'.update.message.text), w>> :
                  w \in {"not found", "failed", "invalid", "no user data"}}]_vars

\* the store refused a patch while the cache held an entry, and the entry
\* is still there
C38_Witness ==
    /\ obs.op = "update"
    /\ Has(obs.trace, {"store_patch"})
    /\ ~obs.e.patch_ok
    /\ user_cache # <<>>
    /\ obs.sent # <<>>
    /\ obs.sent[1].text[2] = "failed"

(***************************************************************************)
(* The lines an update adds to the logs, checked under SpecGate.           *)
(***************************************************************************)
\* the lines of user u that the step added to the logs
UserLinesAdded(u) ==
    Occurrences(conversations', Marker(u)) - Occurrences(conversations, Marker(u))

\* the lines of the bot that the step added to the logs
BotLinesAdded ==
    Occurrences(conversations', BotMarker) - Occurrences(conversations, BotMarker)

\* what the step sent stands in no line of the bot
SentUnlogged ==
    \A i \in 1..Len(obs'.sent) :
        Occurrences(conversations',
                    FormatMessage(obs'.update.message.user_id, BOT_NAME,
                                  obs'.sent[i].text, "BOT_ID")) = 0

\* C39 as stated: every update handled adds exactly one USER line and at
\* most one BOT line, the BOT line only when the backend step is reached.
C39_Original ==
    [][HandledMessage =>
         /\ UserLinesAdded(obs'.update.message.user_id) = 1
         /\ BotLinesAdded \in {0, 1}
         /\ BotLinesAdded = 1 => Has(obs'.trace, {"backend"})]_vars

\* C39: an update whose message carries a sender, a chat and a text adds
\* exactly one USER line, unless the write to the log fails, and an update
\* that lacks one of the three adds no line; every update adds at most one
\* BOT line, and only when the backend step is reached: the replies to
\* commands, the group-redirect notice, the access-denied notice and the
\* notice to wait of the rate limiter are sent and stand in no log.
C39_LinesPerUpdate ==
    [][HandledMessage =>
         /\ UserLinesAdded(obs'.update.message.user_id)
               = IF Loggable(obs'.update.message) /\ obs'.e.io_user THEN 1 ELSE 0
         /\ BotLinesAdded \in {0, 1}
         /\ BotLinesAdded = 1 => Has(obs'.trace, {"backend"})
         /\ ~Has(obs'.trace, {"backend"}) =>
               /\ SentUnlogged
               /\ Loggable(obs'.update.message) => Len(obs'.sent) = 1]_vars

\* the rate limiter's notice to wait was sent, and no line of the bot was
\* written for it
C39_Witness ==
    /\ obs.op = "update"
    /\ obs.rate # <<>>
    /\ ~obs.rate[1]
    /\ Len(obs.sent) = 1
    /\ Head(obs.sent[1].text) = "Please wait"
    /\ Occurrences(conversations,
                   FormatMessage(obs.update.message.user_id, BOT_NAME,
                                 obs.sent[1].text, "BOT_ID")) = 0

(***************************************************************************)
(* The history the conversation step reads, checked under SpecHandler.     *)
(***************************************************************************)
\* the step reached the backend for a message whose line was written, the
\* sender's window being one line or more
BackendAfterLogging ==
    /\ HandledMessage
    /\ Has(obs'.trace, {"backend"})
    /\ obs'.e.io_user
    /\ obs'.auth[3] >= 1

\* C40 as stated: whenever the backend step is reached with a window of one
\* line or more and the sender's line was written, the history given to the
\* assembler ends with the line of the current message, so that the text of
\* the message stands in the history section of the system turn and in the
\* user turn.
C40_Original ==
    [][BackendAfterLogging =>
         LET m == obs'.update.message
             line == StripLine(FormatMessage(m.user_id, m.first_name, m.text, "USER"))
         IN  /\ Len(obs'.context) = 2
             /\ ~Contains(obs'.context[1].content, <<"No previous conversation.">>)
             /\ EndsWith(obs'.context[1].content, line \o <<"Instructions:">>)
             /\ obs'.context[2].content = m.text]_vars

====
